---- MODULE Spec2Model ----
(***************************************************************************)
(* A model of the device inventory kept in DNS (package zone):             *)
(*   - the differential reconciler Service.Update and its three sub-steps  *)
(*     UpdateReverse, UpdateAlias and UpdateMapping, run against a         *)
(*     directory of resource records, one signed transaction at a time;    *)
(*   - the private reverse-zone routing findPrivateZone / reverseAddress;  *)
(*   - the inventory builder Service.List;                                 *)
(*   - the location of a device, Device.SetLocation and Device.Location,   *)
(*     in float64 arithmetic, its projection Device.ToLOC and cm2size, and *)
(*     Device.Equal.                                                       *)
(* Strings the code takes apart (addresses, reverse names, zone names,     *)
(* device names) are sequences of one-character strings.                   *)
(***************************************************************************)
EXTENDS Integers, Sequences, FiniteSets, TLC

VARIABLES
    zone,      \* Update: the caller-supplied zone
    ttl,       \* Update: the caller-supplied ttl
    from,      \* Update: the device as published
    to,        \* Update: the device as wanted
    entry,     \* which exported method was called
    pc,        \* the loop the call is in, "return" once it has returned
    idx,       \* the index of the next element of the slice being ranged over
    todo,      \* the keys of the map being ranged over that are still to come
    queue,     \* the transactions the current loop iteration has still to issue
    log,       \* the transactions issued so far in this call, in order
    dir,       \* the resource records the directory server holds
    err,       \* the call's return value once pc = "return"
    run,       \* 1 for the first call, 2 for the call repeated after it
    first,     \* what the first call did, kept for the second
    call,      \* a call of a pure function: its name and arguments
    ret,       \* the value that call returned
    transfers, \* List: the records the forward and the reverse zones hold
    out        \* List: how far the call has come and what it returned

updVars == <<zone, ttl, from, to, entry, pc, idx, todo, queue, log, dir, err, run, first>>
fnVars == <<call, ret>>
listVars == <<transfers, out>>
vars == <<zone, ttl, from, to, entry, pc, idx, todo, queue, log, dir, err, run, first,
          call, ret, transfers, out>>

----------------------------------------------------------------------------
(* Bounds of the model.                                                     *)

\* the longest Reverse list of a device handed to UpdateReverse
MaxRev == 2
\* the longest Aliases list of a device handed to UpdateAlias
MaxAlias == 2
\* the largest Mapping of a device handed to UpdateMapping
MaxMap == 2
\* the largest Reverse, Aliases and Mapping of a device handed to Update
MaxAll == 1
\* the most records the forward zones hold
MaxFwd == 3
\* the most records the reverse zone holds
MaxPtr == 2
\* List transfer by transfer: the most records of the first forward zone and
\* of the reverse zone
MaxBuildFwd == 3
MaxBuildPtr == 2

\* cm2size: every centimetre value up to this one, and some larger ones
MaxCm == 110

----------------------------------------------------------------------------
(* Strings.                                                                 *)

Digits == <<"0", "1", "2", "3", "4", "5", "6", "7", "8", "9">>

\* strconv for a byte: the decimal digits of n, no leading zero
RECURSIVE Itoa(_)
Itoa(n) == IF n < 10 THEN <<Digits[n + 1]>>
           ELSE Itoa(n \div 10) \o <<Digits[(n % 10) + 1]>>

\* strings.HasPrefix
HasPrefix(s, p) == Len(s) >= Len(p) /\ SubSeq(s, 1, Len(p)) = p

\* s ends with p: a name lies in the zone a transfer is asked for
HasSuffix(s, p) == Len(s) >= Len(p) /\ SubSeq(s, Len(s) - Len(p) + 1, Len(s)) = p

\* strings.Split(s, ".")
RECURSIVE SplitDot(_)
SplitDot(s) ==
    IF \A i \in 1..Len(s) : s[i] # "."
    THEN <<s>>
    ELSE LET i == CHOOSE k \in 1..Len(s) : s[k] = "." /\ \A j \in 1..(k - 1) : s[j] # "."
         IN  <<SubSeq(s, 1, i - 1)>> \o SplitDot(SubSeq(s, i + 1, Len(s)))

\* strings.Join(l, ".")
RECURSIVE JoinDot(_)
JoinDot(l) == IF Len(l) = 0 THEN <<>>
              ELSE IF Len(l) = 1 THEN l[1]
              ELSE l[1] \o <<".">> \o JoinDot(Tail(l))

\* the in-place reversal "for i, j := 0, len(d)-1; i < j; i, j = i+1, j-1"
Reversed(l) == [i \in 1..Len(l) |-> l[Len(l) + 1 - i]]

\* dns.Fqdn: the name with a closing dot
Fqdn(s) == IF Len(s) > 0 /\ s[Len(s)] = "." THEN s ELSE s \o <<".">>

InAddrArpa == <<".", "i", "n", "-", "a", "d", "d", "r", ".", "a", "r", "p", "a", ".">>

----------------------------------------------------------------------------
(* Addresses: an IPv4 address is its four bytes.                            *)

\* net.IP.String of an IPv4 address: dotted decimal
IPString(ip) == Itoa(ip[1]) \o <<".">> \o Itoa(ip[2]) \o <<".">> \o Itoa(ip[3])
                \o <<".">> \o Itoa(ip[4])

\* net.IP.Equal
IPEqual(a, b) == a = b

\* findPrivateZone with the second range taken as 172.16.0.0/12 would be
findPrivateZoneSlash12(ip, z) ==
    CASE HasPrefix(IPString(ip), <<"1", "0", ".">>) -> <<"1", "0">> \o InAddrArpa
      [] ip[1] = 172 /\ ip[2] \in 16..31 -> Itoa(ip[2]) \o <<".", "1", "7", "2">> \o InAddrArpa
      [] HasPrefix(IPString(ip), <<"1", "9", "2", ".", "1", "6", "8", ".">>) ->
             <<"1", "6", "8", ".", "1", "9", "2">> \o InAddrArpa
      [] OTHER -> z

\* findPrivateZone with the prefixes compared without their closing dot
findPrivateZoneNoDot(ip, z) ==
    CASE HasPrefix(IPString(ip), <<"1", "0">>) -> <<"1", "0">> \o InAddrArpa
      [] HasPrefix(IPString(ip), <<"1", "7", "2", ".", "1", "6">>) ->
             <<"1", "6", ".", "1", "7", "2">> \o InAddrArpa
      [] HasPrefix(IPString(ip), <<"1", "9", "2", ".", "1", "6", "8">>) ->
             <<"1", "6", "8", ".", "1", "9", "2">> \o InAddrArpa
      [] OTHER -> z

\* findPrivateZone that routes nothing
findPrivateZoneNone(ip, z) == z

\* findPrivateZone: the first case of the switch that matches decides
findPrivateZone(ip, z) ==
    IF HasPrefix(IPString(ip), <<"1", "0", ".">>)
    THEN <<"1", "0">> \o InAddrArpa
    ELSE IF HasPrefix(IPString(ip), <<"1", "7", "2", ".", "1", "6", ".">>)
    THEN <<"1", "6", ".", "1", "7", "2">> \o InAddrArpa
    ELSE IF HasPrefix(IPString(ip), <<"1", "9", "2", ".", "1", "6", "8", ".">>)
    THEN <<"1", "6", "8", ".", "1", "9", "2">> \o InAddrArpa
    ELSE z

\* reverseAddress without the reversal of the labels
reverseAddressForward(ip) == JoinDot(SplitDot(IPString(ip))) \o InAddrArpa

\* reverseAddress: the labels of the address reversed, under in-addr.arpa.
reverseAddress(ip) == JoinDot(Reversed(SplitDot(IPString(ip)))) \o InAddrArpa

----------------------------------------------------------------------------
(* Unsigned integers of 32 bits and more: a natural number is the           *)
(* sequence of its digits to the base 2^15, lowest first, without leading   *)
(* zero digits, so that equal numbers are equal sequences.                  *)

\* 2^k for 0 <= k <= 15
RECURSIVE Pow2(_)
Pow2(k) == IF k = 0 THEN 1 ELSE 2 * Pow2(k - 1)

Base == Pow2(15)

\* the digits without leading zeros
RECURSIVE NNorm(_)
NNorm(a) == IF Len(a) = 0 THEN a
            ELSE IF a[Len(a)] = 0 THEN NNorm(SubSeq(a, 1, Len(a) - 1))
            ELSE a

\* the number of a machine integer 0 <= n < 2^31
RECURSIVE NFromInt(_)
NFromInt(n) == IF n = 0 THEN <<>> ELSE <<n % Base>> \o NFromInt(n \div Base)

\* the machine integer of a number below 2^31
RECURSIVE NToInt(_)
NToInt(a) == IF Len(a) = 0 THEN 0 ELSE a[1] + Base * NToInt(Tail(a))

\* a + b + carry
RECURSIVE NAddC(_, _, _)
NAddC(a, b, c) ==
    IF Len(a) = 0 /\ Len(b) = 0 THEN (IF c = 0 THEN <<>> ELSE <<c>>)
    ELSE LET x == IF Len(a) = 0 THEN 0 ELSE a[1]
             y == IF Len(b) = 0 THEN 0 ELSE b[1]
             s == x + y + c
         IN  <<s % Base>> \o NAddC(IF Len(a) = 0 THEN a ELSE Tail(a),
                                   IF Len(b) = 0 THEN b ELSE Tail(b), s \div Base)

NAdd(a, b) == NAddC(a, b, 0)

\* a < b
RECURSIVE NLess(_, _)
NLess(a, b) ==
    IF Len(a) # Len(b) THEN Len(a) < Len(b)
    ELSE IF Len(a) = 0 THEN FALSE
    ELSE IF a[Len(a)] # b[Len(b)] THEN a[Len(a)] < b[Len(b)]
    ELSE NLess(NNorm(SubSeq(a, 1, Len(a) - 1)), NNorm(SubSeq(b, 1, Len(b) - 1)))

\* a - b - borrow, digit by digit, for a >= b
RECURSIVE NSubB(_, _, _)
NSubB(a, b, c) ==
    IF Len(a) = 0 THEN <<>>
    ELSE LET y == IF Len(b) = 0 THEN 0 ELSE b[1]
             s == a[1] - y - c
         IN  <<IF s < 0 THEN s + Base ELSE s>>
             \o NSubB(Tail(a), IF Len(b) = 0 THEN b ELSE Tail(b), IF s < 0 THEN 1 ELSE 0)

\* a - b for a >= b
NSub(a, b) == NNorm(NSubB(a, b, 0))

\* a * c + carry for 0 <= c <= 2^15
RECURSIVE NMulC(_, _, _)
NMulC(a, c, k) ==
    IF Len(a) = 0 THEN (IF k = 0 THEN <<>> ELSE <<k>>)
    ELSE LET p == a[1] * c + k
         IN  <<p % Base>> \o NMulC(Tail(a), c, p \div Base)

NMulSmall(a, c) == NNorm(NMulC(a, c, 0))

\* quotient and remainder of a by c, 0 < c <= 2^15: the digits from the top,
\* r the remainder carried down
RECURSIVE NDivR(_, _, _)
NDivR(a, c, r) ==
    IF Len(a) = 0 THEN [q |-> <<>>, r |-> r]
    ELSE LET x == r * Base + a[Len(a)]
             rest == NDivR(SubSeq(a, 1, Len(a) - 1), c, x % c)
         IN  [q |-> rest.q \o <<x \div c>>, r |-> rest.r]

NDivSmall(a, c) == LET d == NDivR(a, c, 0) IN [q |-> NNorm(d.q), r |-> d.r]

\* a * 2^k
NShl(a, k) ==
    IF Len(a) = 0 THEN a
    ELSE [i \in 1..(k \div 15) |-> 0] \o NMulSmall(a, Pow2(k % 15))

\* floor(a / 2^k)
NShr(a, k) ==
    IF Len(a) <= k \div 15 THEN <<>>
    ELSE NDivSmall(SubSeq(a, (k \div 15) + 1, Len(a)), Pow2(k % 15)).q

\* the number of binary digits of 0 <= n < 2^15
RECURSIVE Bits(_)
Bits(n) == IF n = 0 THEN 0 ELSE 1 + Bits(n \div 2)

\* the number of binary digits of a
NBits(a) == IF Len(a) = 0 THEN 0 ELSE 15 * (Len(a) - 1) + Bits(a[Len(a)])

\* a is odd
NOdd(a) == Len(a) > 0 /\ a[1] % 2 = 1

----------------------------------------------------------------------------
(* float64. A value is its sign, its 53-bit significand m and its exponent  *)
(* e, standing for (-1)^sign * m * 2^e with 2^52 <= m < 2^53, or m = 0 for  *)
(* zero. Every operation gives the exact result rounded to the nearest      *)
(* value, to the even significand at a tie, as IEEE 754 has it. The values  *)
(* of the model stay far from overflow and from the subnormal range.        *)

F64(s, m, e) == [sign |-> s, m |-> m, e |-> e]

\* (-1)^s * (n + f) * 2^e rounded, where 0 <= f < 1 and sticky says f > 0; n
\* has at least 55 binary digits when sticky
FRound(s, n, e, sticky) ==
    LET bits == NBits(n)
    IN  IF bits = 0 THEN F64(s, <<>>, 0)
        ELSE IF bits <= 53 THEN F64(s, NShl(n, 53 - bits), e - (53 - bits))
        ELSE LET d == bits - 53
                 q == NShr(n, d)
                 rem == NSub(n, NShl(q, d))
                 half == NShl(<<1>>, d - 1)
                 up == \/ NLess(half, rem)
                       \/ rem = half /\ (sticky \/ NOdd(q))
                 m == IF up THEN NAdd(q, <<1>>) ELSE q
             IN  IF NBits(m) = 54 THEN F64(s, NShr(m, 1), e + d + 1)
                 ELSE F64(s, m, e + d)

\* float64(n) of an unsigned 32-bit n
FFromNat(n) == FRound(0, n, 0, FALSE)

\* -x
FNeg(x) == F64(1 - x.sign, x.m, x.e)

\* x * (c * 2^k) for a constant c * 2^k with 0 < c <= 2^15
FMulConst(x, c, k) == FRound(x.sign, NMulSmall(x.m, c), x.e + k, FALSE)

\* x / (c * 2^k) for a constant c * 2^k with 0 < c <= 2^15
FDivConst(x, c, k) ==
    LET d == NDivSmall(NShl(x.m, 30), c)
    IN  FRound(x.sign, d.q, x.e - 30 - k, d.r # 0)

\* x + y
FAdd(x, y) ==
    IF Len(x.m) = 0 /\ Len(y.m) = 0
    THEN F64(IF x.sign = 1 /\ y.sign = 1 THEN 1 ELSE 0, <<>>, 0)
    ELSE IF Len(x.m) = 0 THEN y
    ELSE IF Len(y.m) = 0 THEN x
    ELSE LET e == IF x.e < y.e THEN x.e ELSE y.e
             a == NShl(x.m, x.e - e)
             b == NShl(y.m, y.e - e)
         IN  IF x.sign = y.sign THEN FRound(x.sign, NAdd(a, b), e, FALSE)
             ELSE IF NLess(a, b) THEN FRound(y.sign, NSub(b, a), e, FALSE)
             ELSE IF a = b THEN F64(0, <<>>, 0)
             ELSE FRound(x.sign, NSub(a, b), e, FALSE)

\* x - y
FSub(x, y) == FAdd(x, FNeg(y))

\* uint32(x) of a float64 x with -1 < x < 2^32: the fraction is dropped
FToUint32(x) ==
    IF Len(x.m) = 0 THEN <<>>
    ELSE IF x.e >= 0 THEN (IF x.sign = 1 THEN <<>> ELSE NShl(x.m, x.e))
    ELSE IF x.sign = 1 THEN <<>>
    ELSE NShr(x.m, 0 - x.e)

\* the machine integer written with at most four decimal digits
RECURSIVE DigitsInt(_)
DigitsInt(ds) == IF Len(ds) = 0 THEN 0
                 ELSE 10 * DigitsInt(SubSeq(ds, 1, Len(ds) - 1)) + ds[Len(ds)]

\* 10^k for 0 <= k <= 4
RECURSIVE Pow10(_)
Pow10(k) == IF k = 0 THEN 1 ELSE 10 * Pow10(k - 1)

\* the number written with the decimal digits ds, taken four at a time
RECURSIVE NFromDigits(_)
NFromDigits(ds) ==
    IF Len(ds) <= 4 THEN NFromInt(DigitsInt(ds))
    ELSE NAdd(NMulSmall(NFromDigits(SubSeq(ds, 1, Len(ds) - 4)), Pow10(4)),
              NFromInt(DigitsInt(SubSeq(ds, Len(ds) - 3, Len(ds)))))

\* floor(n / 5^k) and whether a division left a remainder, 5^5 at a time
RECURSIVE NDivPow5(_, _)
NDivPow5(n, k) ==
    IF k = 0 THEN [q |-> n, r |-> 0]
    ELSE LET j == IF k >= 5 THEN 5 ELSE 1
             d == NDivSmall(n, IF j = 5 THEN 3125 ELSE 5)
         IN  IF d.r = 0 THEN NDivPow5(d.q, k - j)
             ELSE [q |-> NDivPow5(d.q, k - j).q, r |-> 1]

\* the float64 of a decimal literal: sign s, digits ds, k of them after the
\* point, that is (-1)^s * ds / 10^k
FDecimal(s, ds, k) ==
    LET d == NDivPow5(NShl(NFromDigits(ds), 64 + 3 * k), k)
    IN  FRound(s, d.q, 0 - 64 - 3 * k - k, d.r # 0)

----------------------------------------------------------------------------
(* Devices.                                                                 *)

\* the Device struct; Place, Model and Code start empty and the location at
\* zero, as in a Go struct literal that leaves them out
Device(name, ip, reverse, mapping, aliases) ==
    [Name |-> name, IP |-> ip, Reverse |-> reverse, Mapping |-> mapping,
     Aliases |-> aliases, Place |-> <<>>, Model |-> <<>>, Code |-> <<>>,
     Latitude |-> F64(0, <<>>, 0), Longitude |-> F64(0, <<>>, 0),
     Height |-> F64(0, <<>>, 0)]

----------------------------------------------------------------------------
(* The location of a device (RFC 1876).                                     *)

\* 1 << 31
LOC_EQUATOR == NShl(<<1>>, 31)
LOC_PRIMEMERIDIAN == NShl(<<1>>, 31)
\* 60.0 * 60.0 * 1000.0, that is 28125 * 2^7
LOC_DEGREES == [c |-> 28125, k |-> 7]
\* 100000.0
LOC_ALTITUDEBASE == FFromNat(NFromInt(100000))
\* 100.0, that is 25 * 2^2
Hundred == [c |-> 25, k |-> 2]

\* one angle of SetLocation: the offset from 2^31 over LOC_DEGREES, the part
\* below 2^31 divided by -LOC_DEGREES
Angle(v, zero) ==
    IF NLess(zero, v) THEN FDivConst(FFromNat(NSub(v, zero)), LOC_DEGREES.c, LOC_DEGREES.k)
    ELSE FNeg(FDivConst(FFromNat(NSub(zero, v)), LOC_DEGREES.c, LOC_DEGREES.k))

\* d.SetLocation(lat, lon, alt)
SetLocation(d, lat, lon, alt) ==
    [d EXCEPT !.Latitude = Angle(lat, LOC_EQUATOR),
              !.Longitude = Angle(lon, LOC_PRIMEMERIDIAN),
              !.Height = FSub(FDivConst(FFromNat(alt), Hundred.c, Hundred.k),
                              LOC_ALTITUDEBASE)]

\* d.Location(): each product and sum rounded on its own, as a build for
\* amd64 computes them (no fused multiply-add), the conversion to uint32
\* dropping the fraction
Location(d) ==
    <<FToUint32(FAdd(FMulConst(d.Latitude, LOC_DEGREES.c, LOC_DEGREES.k),
                     FFromNat(LOC_EQUATOR))),
      FToUint32(FAdd(FMulConst(d.Longitude, LOC_DEGREES.c, LOC_DEGREES.k),
                     FFromNat(LOC_PRIMEMERIDIAN))),
      FToUint32(FMulConst(FAdd(d.Height, LOC_ALTITUDEBASE), Hundred.c, Hundred.k))>>

\* d.AtLocation(lat, lon, alt)
AtLocation(d, lat, lon, alt) ==
    LET l == Location(d)
    IN  IF l[1] # lat THEN FALSE
        ELSE IF l[2] # lon THEN FALSE
        ELSE IF l[3] # alt THEN FALSE
        ELSE TRUE

----------------------------------------------------------------------------
(* Comparing devices.                                                       *)

\* the letters strings.EqualFold takes for one another in the names and
\* codes of the model, which are ASCII
UpperCase == <<"A", "B", "C", "D", "E", "F", "G", "H", "I", "J", "K", "L", "M",
               "N", "O", "P", "Q", "R", "S", "T", "U", "V", "W", "X", "Y", "Z">>
LowerCase == <<"a", "b", "c", "d", "e", "f", "g", "h", "i", "j", "k", "l", "m",
               "n", "o", "p", "q", "r", "s", "t", "u", "v", "w", "x", "y", "z">>

\* a letter in lower case, any other byte as it is
Fold(c) ==
    IF \E i \in 1..Len(UpperCase) : UpperCase[i] = c
    THEN LowerCase[CHOOSE i \in 1..Len(UpperCase) : UpperCase[i] = c]
    ELSE c

\* strings.EqualFold(s, t)
EqualFold(s, t) ==
    /\ Len(s) = Len(t)
    /\ \A i \in 1..Len(s) : Fold(s[i]) = Fold(t[i])

\* d.HasName(name)
HasName(d, name) == EqualFold(d.Name, name)

\* d.HasAddress(ip)
HasAddress(d, ip) ==
    IF IPEqual(d.IP, ip) THEN TRUE
    ELSE \E i \in 1..Len(d.Reverse) : IPEqual(d.Reverse[i], ip)

\* d.HasCode(code)
HasCode(d, code) == EqualFold(d.Code, code)

\* Device.HasModel ignoring case
HasModelFold(d, model) == EqualFold(d.Model, model)

\* d.HasModel(model)
HasModel(d, model) == d.Model = model

\* Device.AtPlace comparing the places byte for byte
AtPlaceExact(d, place) == d.Place = place

\* d.AtPlace(place)
AtPlace(d, place) == EqualFold(d.Place, place)

\* d.Equal(device)
Equal(d, device) ==
    IF ~HasName(d, device.Name) THEN FALSE
    ELSE IF ~HasAddress(d, device.IP) THEN FALSE
    ELSE IF ~HasCode(d, device.Code) THEN FALSE
    ELSE IF ~HasModel(d, device.Model) THEN FALSE
    ELSE LET l == Location(device)
         IN  IF ~AtLocation(d, l[1], l[2], l[3]) THEN FALSE
             ELSE TRUE

----------------------------------------------------------------------------
(* The location record of a device.                                         *)

\* the loop condition of cm2size taken as v > 10
cm2sizeContinuesGreater(v) == NLess(NFromInt(10), v)

\* the loop condition of cm2size: v >= 10
cm2sizeContinues(v) == ~NLess(v, NFromInt(10))

\* (uint8(v) << 4) | uint8(e & 0x0f): the shift within eight bits, the two
\* operands of | in different nibbles
cm2sizePacked(v, e) == (((NToInt(v) % 256) * 16) % 256) + (e % 16)

\* the loop of cm2size: for v = cms; v >= 10; v = v / 10 { e = e + 1 }
RECURSIVE cm2sizeLoop(_, _)
cm2sizeLoop(v, e) ==
    IF cm2sizeContinues(v) THEN cm2sizeLoop(NDivSmall(v, 10).q, e + 1)
    ELSE cm2sizePacked(v, e)

\* cm2size(cms)
cm2size(cms) == cm2sizeLoop(cms, 0)

\* the location record ToLOC builds
LOCRecord(name, t, size, horiz, vert, loc) ==
    [Name |-> name, Rrtype |-> "LOC", Ttl |-> t, Size |-> size, HorizPre |-> horiz,
     VertPre |-> vert, Latitude |-> loc[1], Longitude |-> loc[2], Altitude |-> loc[3]]

\* ToLOC with the sizes RFC 1876 gives as defaults: 1m, 10000m, 10m
ToLOCDefaults(d) ==
    LOCRecord(Fqdn(d.Name), 0, cm2size(NFromInt(100)), cm2size(NFromInt(1000000)),
              cm2size(NFromInt(1000)), Location(d))

\* ToLOC owned by the name as the device has it
ToLOCBareName(d) ==
    LOCRecord(d.Name, 0, cm2size(NFromInt(10000)), cm2size(NFromInt(5000)),
              cm2size(NFromInt(5000)), Location(d))

\* d.ToLOC()
ToLOC(d) ==
    LOCRecord(Fqdn(d.Name), 0, cm2size(NFromInt(10000)), cm2size(NFromInt(5000)),
              cm2size(NFromInt(5000)), Location(d))

----------------------------------------------------------------------------
(* The lists of a device.                                                   *)

\* the elements of a slice
Range(s) == {s[i] : i \in 1..Len(s)}

\* Device.HasAlias comparing names with their closing dot added
HasAliasFqdn(d, alias) == \E i \in 1..Len(d.Aliases) : Fqdn(d.Aliases[i]) = Fqdn(alias)

\* Device.HasAlias
HasAlias(d, alias) == \E i \in 1..Len(d.Aliases) : d.Aliases[i] = alias

\* Device.HasReverse looking at the first element only
HasReverseFirst(d, ip) == Len(d.Reverse) > 0 /\ IPEqual(d.Reverse[1], ip)

\* Device.HasReverse
HasReverse(d, ip) == \E i \in 1..Len(d.Reverse) : IPEqual(d.Reverse[i], ip)

\* Device.HasMapping comparing the address only
HasMappingAddress(d, name, ip) == \E n \in DOMAIN d.Mapping : IPEqual(d.Mapping[n], ip)

\* Device.HasMapping
HasMapping(d, name, ip) ==
    \E n \in DOMAIN d.Mapping : n = name /\ IPEqual(d.Mapping[n], ip)

----------------------------------------------------------------------------
(* Resource records and the transactions of the directory service.          *)

\* dns.PTR{Hdr: dns.RR_Header{Name, Rrtype: dns.TypePTR, Ttl}, Ptr}
PTR(name, t, ptr) == [Name |-> name, Rrtype |-> "PTR", Ttl |-> t, Target |-> ptr]

\* dns.CNAME{Hdr: dns.RR_Header{Name, Rrtype: dns.TypeCNAME, Ttl}, Target}
CNAME(name, t, target) == [Name |-> name, Rrtype |-> "CNAME", Ttl |-> t, Target |-> target]

\* a call of Service.RemoveRRset(z, []dns.RR{rr}) or Service.Insert(z, []dns.RR{rr})
Tx(op, z, rr) == [op |-> op, zone |-> z, rr |-> rr]

\* what a dynamic update the server accepts does to its records: RemoveRRset
\* deletes the record set of the name and type, Insert adds the record
Apply(records, tx) ==
    IF tx.op = "RemoveRRset"
    THEN {r \in records : ~(r.Name = tx.rr.Name /\ r.Rrtype = tx.rr.Rrtype)}
    ELSE records \cup {tx.rr}

----------------------------------------------------------------------------
(* The bodies of the six loops: the transactions one iteration issues.      *)

\* UpdateReverse, first loop, without the guard on the routed zone
UpdateReverseExtraUnguarded(z0, from0, to0, r) ==
    IF HasReverse(to0, r) THEN <<>>
    ELSE <<Tx("RemoveRRset", findPrivateZone(r, z0),
              PTR(reverseAddress(r), 0, Fqdn(from0.Name)))>>

\* UpdateReverse, first loop, removing what the two devices share
UpdateReverseExtraShared(z0, from0, to0, r) ==
    LET z == findPrivateZone(r, z0)
    IN  IF z = z0 THEN <<>>
        ELSE <<Tx("RemoveRRset", z, PTR(reverseAddress(r), 0, Fqdn(from0.Name)))>>

\* UpdateReverse, first loop: an address of from.Reverse
UpdateReverseExtra(z0, from0, to0, r) ==
    IF HasReverse(to0, r) THEN <<>>
    ELSE LET z == findPrivateZone(r, z0)
         IN  IF z = z0 THEN <<>>
             ELSE <<Tx("RemoveRRset", z, PTR(reverseAddress(r), 0, Fqdn(from0.Name)))>>

\* UpdateReverse, second loop, inserting with no removal before
UpdateReverseMissingNoRemove(z0, ttl0, from0, to0, r) ==
    IF HasReverse(from0, r) THEN <<>>
    ELSE LET z == findPrivateZone(r, z0)
         IN  IF z = z0 THEN <<>>
             ELSE <<Tx("Insert", z, PTR(reverseAddress(r), ttl0, Fqdn(to0.Name)))>>

\* UpdateReverse, second loop: an address of to.Reverse
UpdateReverseMissing(z0, ttl0, from0, to0, r) ==
    IF HasReverse(from0, r) THEN <<>>
    ELSE LET z == findPrivateZone(r, z0)
         IN  IF z = z0 THEN <<>>
             ELSE <<Tx("RemoveRRset", z, PTR(reverseAddress(r), 0, <<>>)),
                    Tx("Insert", z, PTR(reverseAddress(r), ttl0, Fqdn(to0.Name)))>>

\* UpdateAlias, first loop: an alias of from.Aliases
UpdateAliasExtra(z0, from0, to0, r) ==
    IF HasAlias(to0, r) THEN <<>>
    ELSE <<Tx("RemoveRRset", z0, CNAME(Fqdn(r), 0, Fqdn(to0.Name)))>>

\* UpdateAlias, second loop, with the target taken from to
UpdateAliasMissingToName(z0, ttl0, from0, to0, r) ==
    IF HasAlias(from0, r) THEN <<>>
    ELSE <<Tx("RemoveRRset", z0, CNAME(Fqdn(r), 0, Fqdn(to0.Name))),
           Tx("Insert", z0, CNAME(Fqdn(r), 0, Fqdn(to0.Name)))>>

\* UpdateAlias, second loop: an alias of to.Aliases; the one record it builds,
\* whose target is from.Name and whose Ttl is left unset, is removed and inserted
UpdateAliasMissing(z0, ttl0, from0, to0, r) ==
    IF HasAlias(from0, r) THEN <<>>
    ELSE <<Tx("RemoveRRset", z0, CNAME(Fqdn(r), 0, Fqdn(from0.Name))),
           Tx("Insert", z0, CNAME(Fqdn(r), 0, Fqdn(from0.Name)))>>

\* UpdateMapping, first loop, without the guard on the routed zone
UpdateMappingExtraUnguarded(z0, from0, to0, m, i) ==
    IF HasMapping(to0, m, i) THEN <<>>
    ELSE <<Tx("RemoveRRset", findPrivateZone(i, z0), PTR(reverseAddress(i), 0, Fqdn(m)))>>

\* UpdateMapping, first loop: a pair of from.Mapping
UpdateMappingExtra(z0, from0, to0, m, i) ==
    IF HasMapping(to0, m, i) THEN <<>>
    ELSE LET z == findPrivateZone(i, z0)
         IN  IF z = z0 THEN <<>>
             ELSE <<Tx("RemoveRRset", z, PTR(reverseAddress(i), 0, Fqdn(m)))>>

\* UpdateMapping, second loop, pointing the record to the device
UpdateMappingMissingToName(z0, ttl0, from0, to0, m, i) ==
    IF HasMapping(from0, m, i) THEN <<>>
    ELSE LET z == findPrivateZone(i, z0)
         IN  IF z = z0 THEN <<>>
             ELSE <<Tx("RemoveRRset", z, PTR(reverseAddress(i), 0, Fqdn(to0.Name))),
                    Tx("Insert", z, PTR(reverseAddress(i), 0, Fqdn(to0.Name)))>>

\* UpdateMapping, second loop: a pair of to.Mapping; the one record it builds,
\* whose Ttl is left unset, is removed and inserted
UpdateMappingMissing(z0, ttl0, from0, to0, m, i) ==
    IF HasMapping(from0, m, i) THEN <<>>
    ELSE LET z == findPrivateZone(i, z0)
         IN  IF z = z0 THEN <<>>
             ELSE <<Tx("RemoveRRset", z, PTR(reverseAddress(i), 0, Fqdn(m))),
                    Tx("Insert", z, PTR(reverseAddress(i), 0, Fqdn(m)))>>

----------------------------------------------------------------------------
(* Service.List: the inventory built from the transferred records.          *)

\* the bytes that occur in the names of the model, in ascending order
Alphabet == <<"-", ".", "0", "1", "2", "3", "4", "5", "6", "7", "8", "9",
              "a", "b", "c", "d", "e", "f", "g", "h", "i", "j", "k", "l", "m",
              "n", "o", "p", "q", "r", "s", "t", "u", "v", "w", "x", "y", "z">>

\* the place of a byte in that order
Ord(c) == CHOOSE i \in 1..Len(Alphabet) : Alphabet[i] = c

\* s < t as Go compares strings: byte by byte, a proper prefix first
RECURSIVE StrLess(_, _)
StrLess(s, t) ==
    IF Len(t) = 0 THEN FALSE
    ELSE IF Len(s) = 0 THEN TRUE
    ELSE IF s[1] = t[1] THEN StrLess(Tail(s), Tail(t))
    ELSE Ord(s[1]) < Ord(t[1])

\* strings.Replace(s, old, "", -1) for a non-empty old: every occurrence of
\* old, found from the left and not overlapping, is dropped
RECURSIVE RemoveAll(_, _)
RemoveAll(s, old) ==
    IF Len(s) < Len(old) THEN s
    ELSE IF HasPrefix(s, old) THEN RemoveAll(SubSeq(s, Len(old) + 1, Len(s)), old)
    ELSE <<s[1]>> \o RemoveAll(Tail(s), old)

\* the value of a string of decimal digits
RECURSIVE Atoi(_)
Atoi(s) == IF Len(s) = 0 THEN 0
           ELSE 10 * Atoi(SubSeq(s, 1, Len(s) - 1)) + (Ord(s[Len(s)]) - Ord("0"))

\* net.ParseIP gives nil
NilIP == <<>>

\* a field of a dotted-decimal address: one to three digits, no leading zero,
\* at most 255
IsByteField(f) ==
    /\ Len(f) \in 1..3
    /\ \A i \in 1..Len(f) : f[i] \in Range(Digits)
    /\ (Len(f) > 1 => f[1] # "0")
    /\ Atoi(f) <= 255

\* net.ParseIP of a string without a colon: four such fields, or nil
ParseIP(s) ==
    LET f == SplitDot(s)
    IN  IF Len(f) = 4 /\ \A i \in 1..4 : IsByteField(f[i])
        THEN <<Atoi(f[1]), Atoi(f[2]), Atoi(f[3]), Atoi(f[4])>>
        ELSE NilIP

\* m[k] = v on a Go map
Put(m, k, v) == [x \in DOMAIN m \cup {k} |-> IF x = k THEN v ELSE m[x]]

\* dns.A{Hdr: dns.RR_Header{Name, Rrtype: dns.TypeA}, A}
A(name, ip) == [Name |-> name, Rrtype |-> "A", Ttl |-> 60, A |-> ip]

\* the key List files a PTR record of reverse zone z under: the name with z
\* dropped, then z with ".in-addr.arpa." dropped, split at the dots, reversed
\* and joined again
PtrKey(name, z) ==
    JoinDot(Reversed(SplitDot(RemoveAll(name, z) \o RemoveAll(z, InAddrArpa))))

\* the PTR records of one transferred reverse zone, put into ptrs in their order
RECURSIVE ListPtrsOfZone(_, _, _)
ListPtrsOfZone(ptrs, z, rr) ==
    IF Len(rr) = 0 THEN ptrs
    ELSE ListPtrsOfZone(IF rr[1].Rrtype = "PTR"
                        THEN Put(ptrs, PtrKey(rr[1].Name, z), rr[1].Target)
                        ELSE ptrs,
                        z, Tail(rr))

\* the first loop of List: ptrs, from the transfers of the reverse zones
RECURSIVE ListPtrs(_, _)
ListPtrs(ptrs, reverse) ==
    IF Len(reverse) = 0 THEN ptrs
    ELSE ListPtrs(ListPtrsOfZone(ptrs, reverse[1].zone, reverse[1].rr), Tail(reverse))

\* the search for A records: devices, keyed by the record's name
RECURSIVE ListAddresses(_, _)
ListAddresses(devices, rr) ==
    IF Len(rr) = 0 THEN devices
    ELSE ListAddresses(IF rr[1].Rrtype = "A"
                       THEN Put(devices, rr[1].Name,
                                Device(rr[1].Name, rr[1].A, <<>>, <<>>, <<>>))
                       ELSE devices,
                       Tail(rr))

\* the search for CNAME records: cnames, the target keyed by the record's name
RECURSIVE ListCnames(_, _)
ListCnames(cnames, rr) ==
    IF Len(rr) = 0 THEN cnames
    ELSE ListCnames(IF rr[1].Rrtype = "CNAME"
                    THEN Put(cnames, rr[1].Name, rr[1].Target)
                    ELSE cnames,
                    Tail(rr))

\* dns.TXT{Hdr: dns.RR_Header{Name, Rrtype: dns.TypeTXT}, Txt}
TXT(name, txt) == [Name |-> name, Rrtype |-> "TXT", Ttl |-> 60, Txt |-> txt]

\* dns.HINFO{Hdr: dns.RR_Header{Name, Rrtype: dns.TypeHINFO}, Cpu, Os}
HINFO(name, cpu, os) == [Name |-> name, Rrtype |-> "HINFO", Ttl |-> 60, Cpu |-> cpu, Os |-> os]

\* dns.LOC{Hdr: dns.RR_Header{Name, Rrtype: dns.TypeLOC}, Latitude, Longitude,
\* Altitude}
LOC(name, lat, lon, alt) ==
    [Name |-> name, Rrtype |-> "LOC", Ttl |-> 60, Latitude |-> lat, Longitude |-> lon,
     Altitude |-> alt]

\* strings.Join(l, " ")
RECURSIVE JoinSpace(_)
JoinSpace(l) ==
    IF Len(l) = 0 THEN <<>>
    ELSE IF Len(l) = 1 THEN l[1]
    ELSE l[1] \o <<" ">> \o JoinSpace(Tail(l))

\* "gather other device details": what one record does to the device of its
\* name
ListDetail(d, r) ==
    CASE r.Rrtype = "TXT" -> [d EXCEPT !.Place = JoinSpace(r.Txt)]
      [] r.Rrtype = "HINFO" -> [d EXCEPT !.Model = r.Cpu, !.Code = r.Os]
      [] r.Rrtype = "LOC" -> SetLocation(d, r.Latitude, r.Longitude, r.Altitude)
      [] OTHER -> d

\* "gather other device details": the records of the device's name applied in
\* the order of rr
RECURSIVE ListDetails(_, _)
ListDetails(d, rr) ==
    IF Len(rr) = 0 THEN d
    ELSE ListDetails(IF rr[1].Name = d.Name THEN ListDetail(d, rr[1]) ELSE d, Tail(rr))

\* the orders a range over a map with the keys S can take
Orders(S) == {s \in [1..Cardinality(S) -> S] : \A i, j \in DOMAIN s : s[i] = s[j] => i = j}

\* "gather alias addresses" attaching also the names that are devices
ListAliasKeysAll(devices, cnames, n) == {c \in DOMAIN cnames : cnames[c] = n}

\* "gather alias addresses": the names appended to the Aliases of device n
ListAliasKeys(devices, cnames, n) ==
    {c \in DOMAIN cnames : c \notin DOMAIN devices /\ cnames[c] = n}

\* "gather reverse lookups": the keys whose address is appended to the Reverse
\* of device n
ListReverseKeys(devices, ptrs, n) ==
    {a \in DOMAIN ptrs : ParseIP(a) # NilIP /\ ptrs[a] = n}

\* "gather mappings" without the look at the target of the alias
ListMappingKeysAnyTarget(devices, cnames, ptrs, c, n) ==
    {a \in DOMAIN ptrs : ParseIP(a) # NilIP /\ ptrs[a] = n /\ n \in DOMAIN cnames}

\* "gather mappings": the keys whose address is stored as Mapping[n] of device
\* c, each overwriting the one before
ListMappingKeys(devices, cnames, ptrs, c, n) ==
    {a \in DOMAIN ptrs : ParseIP(a) # NilIP /\ ptrs[a] = n
                         /\ n \in DOMAIN cnames /\ cnames[n] = c}

\* the devices List can build for the name n: the ranges over cnames and ptrs
\* take their keys in any order, which orders Aliases and Reverse and decides
\* which address of several a mapping keeps
ListDevice(devices, cnames, ptrs, rr, n) ==
    LET names == {m \in DOMAIN cnames : ListMappingKeys(devices, cnames, ptrs, n, m) # {}}
    IN  {ListDetails(Device(n, devices[n].IP, [i \in DOMAIN rs |-> ParseIP(rs[i])], mp, al),
                     rr) :
            rs \in Orders(ListReverseKeys(devices, ptrs, n)),
            al \in Orders(ListAliasKeys(devices, cnames, n)),
            mp \in {f \in [names -> {ParseIP(a) : a \in DOMAIN ptrs}] :
                      \A m \in names :
                         \E a \in ListMappingKeys(devices, cnames, ptrs, n, m) :
                            f[m] = ParseIP(a)}}

\* the keys of devices from the last to the first
SortedKeysDescending(S) ==
    CHOOSE s \in Orders(S) : \A i, j \in DOMAIN s : i < j => StrLess(s[j], s[i])

\* sort.Strings of the keys of devices
SortedKeys(S) ==
    CHOOSE s \in Orders(S) : \A i, j \in DOMAIN s : i < j => StrLess(s[i], s[j])

\* "build resulting sorted array": the devices of the keys, in their order,
\* each as one of the devices List can build for its name
RECURSIVE ListSorted(_, _, _, _, _)
ListSorted(devices, cnames, ptrs, rr, keys) ==
    IF Len(keys) = 0 THEN {<<>>}
    ELSE {<<d>> \o rest : d \in ListDevice(devices, cnames, ptrs, rr, keys[1]),
                          rest \in ListSorted(devices, cnames, ptrs, rr, Tail(keys))}

\* the inventories List can return once ptrs is filled and rr holds the
\* records of the forward zones
ListFrom(ptrs, rr) ==
    LET devices == ListAddresses(<<>>, rr)
        cnames == ListCnames(<<>>, rr)
    IN  ListSorted(devices, cnames, ptrs, rr, SortedKeys(DOMAIN devices))

\* the inventories List can return for the forward records rr and the
\* transfers of the reverse zones
List(rr, reverse) == ListFrom(ListPtrs(<<>>, reverse), rr)

----------------------------------------------------------------------------
(* The values the calls are made with.                                      *)

HostH == <<"h", ".">>
HostG == <<"g", ".">>
AliasC == <<"c", ".">>
AliasD == <<"d", ".">>
AliasCBare == <<"c">>

Addr10 == <<10, 0, 0, 1>>
Addr100 == <<100, 0, 0, 1>>
Addr172x16 == <<172, 16, 0, 1>>
Addr172x17 == <<172, 17, 0, 1>>
Addr192x168 == <<192, 168, 0, 1>>
Addr192x16 == <<192, 16, 8, 1>>

ZoneForward == <<"z", ".">>
Zone10 == <<"1", "0">> \o InAddrArpa

Zones == {ZoneForward, Zone10}
Ttls == {300, 3600}
Addrs == {Addr10, Addr100, Addr172x16, Addr172x17, Addr192x168, Addr192x16}

\* the slices of at most n distinct elements of S
Slices(S, n) ==
    {s \in UNION {[1..k -> S] : k \in 0..n} : \A i, j \in 1..Len(s) : s[i] = s[j] => i = j}

\* the maps of at most n keys of K to values of V
Maps(K, V, n) == UNION {[D -> V] : D \in {X \in SUBSET K : Cardinality(X) <= n}}

\* the address no device of the model has as its A record's address
NoIP == <<0, 0, 0, 0>>

\* RFC 1918: the address is in 10/8, 172.16/12 or 192.168/16
InPrivateRange(ip) ==
    \/ ip[1] = 10
    \/ ip[1] = 172 /\ ip[2] \in 16..31
    \/ ip[1] = 192 /\ ip[2] = 168

\* the records of a directory that publishes exactly the device d: a PTR per
\* reverse address and per secondary mapping, in the private reverse zones, and
\* a CNAME per alias
Publish(d) ==
    {PTR(reverseAddress(a), 60, Fqdn(d.Name)) : a \in {x \in Range(d.Reverse) : InPrivateRange(x)}}
    \cup {CNAME(Fqdn(c), 60, Fqdn(d.Name)) : c \in Range(d.Aliases)}
    \cup {PTR(reverseAddress(d.Mapping[n]), 60, Fqdn(n)) :
            n \in {x \in DOMAIN d.Mapping : InPrivateRange(d.Mapping[x])}}

\* a device as the builder correlates it: no address is both a reverse address
\* and a secondary address or the address of two secondary names, and every
\* secondary name is an alias
Correlated(d) ==
    /\ \A n \in DOMAIN d.Mapping : ~HasReverse(d, d.Mapping[n]) /\ HasAlias(d, n)
    /\ \A m, n \in DOMAIN d.Mapping : d.Mapping[m] = d.Mapping[n] => m = n

----------------------------------------------------------------------------
(* The calls, as a state machine.                                           *)

\* the loops of Update with UpdateAlias called first
LoopsAliasFirst(e) ==
    CASE e = "UpdateReverse" -> <<"ReverseExtra", "ReverseMissing">>
      [] e = "UpdateAlias" -> <<"AliasExtra", "AliasMissing">>
      [] e = "UpdateMapping" -> <<"MappingExtra", "MappingMissing">>
      [] e = "Update" -> <<"AliasExtra", "AliasMissing", "ReverseExtra", "ReverseMissing",
                           "MappingExtra", "MappingMissing">>

\* the loops a call of Update, UpdateReverse, UpdateAlias or UpdateMapping runs
Loops(e) ==
    CASE e = "UpdateReverse" -> <<"ReverseExtra", "ReverseMissing">>
      [] e = "UpdateAlias" -> <<"AliasExtra", "AliasMissing">>
      [] e = "UpdateMapping" -> <<"MappingExtra", "MappingMissing">>
      [] e = "Update" -> <<"ReverseExtra", "ReverseMissing", "AliasExtra", "AliasMissing",
                           "MappingExtra", "MappingMissing">>

\* the loop after loop p of call e, "return" after the last
LoopAfter(e, p) ==
    LET l == Loops(e)
        i == CHOOSE k \in 1..Len(l) : l[k] = p
    IN  IF i = Len(l) THEN "return" ELSE l[i + 1]

\* the keys the loop p ranges over when it is a loop over a map
KeysOf(p, from0, to0) ==
    CASE p = "MappingExtra" -> DOMAIN from0.Mapping
      [] p = "MappingMissing" -> DOMAIN to0.Mapping
      [] OTHER -> {}

\* the slice the loop p ranges over when it is a loop over a slice
SliceOf(p, from0, to0) ==
    CASE p = "ReverseExtra" -> from0.Reverse
      [] p = "ReverseMissing" -> to0.Reverse
      [] p = "AliasExtra" -> from0.Aliases
      [] p = "AliasMissing" -> to0.Aliases
      [] OTHER -> <<>>

\* an error that is swallowed: the loop goes on
OnErrorGoOn(q, p) == [queue |-> Tail(q), pc |-> p, err |-> "none"]

\* "if err := s.RemoveRRset(...); err != nil { return err }", the same after
\* Insert, and "if err := s.UpdateReverse(...); err != nil { return err }" in
\* Update: the call returns the error at once
OnError(q, p) == [queue |-> <<>>, pc |-> "return", err |-> "error"]

InitCall(e, z, t, f, d) ==
    /\ entry = e
    /\ zone = z
    /\ ttl = t
    /\ from = f
    /\ to = d
    /\ pc = Loops(e)[1]
    /\ idx = 1
    /\ todo = KeysOf(Loops(e)[1], f, d)
    /\ queue = <<>>
    /\ log = <<>>
    /\ dir = Publish(f)
    /\ err = "none"
    /\ run = 1
    /\ first = [err |-> "none", log |-> <<>>, from |-> f]

FnIdle == call = <<>> /\ ret = <<>>
ListIdle == transfers = <<>> /\ out = <<>>

InitUpdate ==
    /\ FnIdle /\ ListIdle
    /\ \E z \in Zones, t \in Ttls, fn \in {HostH}, tn \in {HostH, HostG} :
        \/ \E fr, tr \in Slices({Addr10, Addr100, Addr172x16, Addr192x168}, MaxRev) :
             InitCall("UpdateReverse", z, t, Device(fn, NoIP, fr, <<>>, <<>>),
                      Device(tn, NoIP, tr, <<>>, <<>>))
        \/ \E fa, ta \in Slices({AliasC, AliasD, AliasCBare}, MaxAlias) :
             InitCall("UpdateAlias", z, t, Device(fn, NoIP, <<>>, <<>>, fa),
                      Device(tn, NoIP, <<>>, <<>>, ta))
        \/ \E fm, tm \in Maps({AliasC, AliasD}, {Addr10, Addr100, Addr172x16}, MaxMap) :
             InitCall("UpdateMapping", z, t, Device(fn, NoIP, <<>>, fm, <<>>),
                      Device(tn, NoIP, <<>>, tm, <<>>))
        \/ \E fr, tr \in Slices({Addr10, Addr192x168}, MaxAll),
              fa, ta \in Slices({AliasC}, MaxAll),
              fm, tm \in Maps({AliasC}, {Addr10, Addr192x168}, MaxAll) :
             /\ Correlated(Device(fn, NoIP, fr, fm, fa))
             /\ Correlated(Device(tn, NoIP, tr, tm, ta))
             /\ InitCall("Update", z, t, Device(fn, NoIP, fr, fm, fa),
                         Device(tn, NoIP, tr, tm, ta))

\* one iteration of the first loop of UpdateReverse
ReverseExtra ==
    /\ pc = "ReverseExtra" /\ queue = <<>> /\ idx <= Len(from.Reverse)
    /\ queue' = UpdateReverseExtra(zone, from, to, from.Reverse[idx])
    /\ idx' = idx + 1
    /\ UNCHANGED <<zone, ttl, from, to, entry, pc, todo, log, dir, err, run, first>>
    /\ UNCHANGED <<fnVars, listVars>>

\* one iteration of the second loop of UpdateReverse
ReverseMissing ==
    /\ pc = "ReverseMissing" /\ queue = <<>> /\ idx <= Len(to.Reverse)
    /\ queue' = UpdateReverseMissing(zone, ttl, from, to, to.Reverse[idx])
    /\ idx' = idx + 1
    /\ UNCHANGED <<zone, ttl, from, to, entry, pc, todo, log, dir, err, run, first>>
    /\ UNCHANGED <<fnVars, listVars>>

\* one iteration of the first loop of UpdateAlias
AliasExtra ==
    /\ pc = "AliasExtra" /\ queue = <<>> /\ idx <= Len(from.Aliases)
    /\ queue' = UpdateAliasExtra(zone, from, to, from.Aliases[idx])
    /\ idx' = idx + 1
    /\ UNCHANGED <<zone, ttl, from, to, entry, pc, todo, log, dir, err, run, first>>
    /\ UNCHANGED <<fnVars, listVars>>

\* one iteration of the second loop of UpdateAlias
AliasMissing ==
    /\ pc = "AliasMissing" /\ queue = <<>> /\ idx <= Len(to.Aliases)
    /\ queue' = UpdateAliasMissing(zone, ttl, from, to, to.Aliases[idx])
    /\ idx' = idx + 1
    /\ UNCHANGED <<zone, ttl, from, to, entry, pc, todo, log, dir, err, run, first>>
    /\ UNCHANGED <<fnVars, listVars>>

\* one iteration of the first loop of UpdateMapping: range over a map takes the
\* keys in any order
MappingExtra ==
    /\ pc = "MappingExtra" /\ queue = <<>>
    /\ \E m \in todo :
        /\ queue' = UpdateMappingExtra(zone, from, to, m, from.Mapping[m])
        /\ todo' = todo \ {m}
    /\ UNCHANGED <<zone, ttl, from, to, entry, pc, idx, log, dir, err, run, first>>
    /\ UNCHANGED <<fnVars, listVars>>

\* one iteration of the second loop of UpdateMapping
MappingMissing ==
    /\ pc = "MappingMissing" /\ queue = <<>>
    /\ \E m \in todo :
        /\ queue' = UpdateMappingMissing(zone, ttl, from, to, m, to.Mapping[m])
        /\ todo' = todo \ {m}
    /\ UNCHANGED <<zone, ttl, from, to, entry, pc, idx, log, dir, err, run, first>>
    /\ UNCHANGED <<fnVars, listVars>>

\* a loop has ranged over all its elements: the next loop starts, or the call
\* returns nil after the last
LoopDone ==
    /\ pc # "return" /\ queue = <<>>
    /\ idx > Len(SliceOf(pc, from, to)) /\ todo = {}
    /\ pc' = LoopAfter(entry, pc)
    /\ idx' = 1
    /\ todo' = KeysOf(pc', from, to)
    /\ err' = IF pc' = "return" THEN "nil" ELSE err
    /\ UNCHANGED <<zone, ttl, from, to, entry, queue, log, dir, run, first>>
    /\ UNCHANGED <<fnVars, listVars>>

\* Service.RemoveRRset or Service.Insert: the exchange answers with success
Exchange ==
    /\ pc # "return" /\ queue # <<>>
    /\ dir' = Apply(dir, Head(queue))
    /\ log' = Append(log, [tx |-> Head(queue), ok |-> TRUE, loop |-> pc])
    /\ queue' = Tail(queue)
    /\ UNCHANGED <<zone, ttl, from, to, entry, pc, idx, todo, err, run, first>>
    /\ UNCHANGED <<fnVars, listVars>>

\* Service.RemoveRRset or Service.Insert: the server cannot be resolved, the
\* exchange fails or the answer is no success; the directory is as it was
ExchangeFails ==
    /\ pc # "return" /\ queue # <<>>
    /\ log' = Append(log, [tx |-> Head(queue), ok |-> FALSE, loop |-> pc])
    /\ queue' = OnError(queue, pc).queue
    /\ pc' = OnError(queue, pc).pc
    /\ err' = OnError(queue, pc).err
    /\ UNCHANGED <<zone, ttl, from, to, entry, idx, todo, dir, run, first>>
    /\ UNCHANGED <<fnVars, listVars>>

\* the reverse zones the inventory is built from
PrivateZones == <<Zone10, <<"1", "6", ".", "1", "7", "2">> \o InAddrArpa,
                  <<"1", "6", "8", ".", "1", "9", "2">> \o InAddrArpa>>

\* the records a transfer of zone z can deliver from the directory: those whose
\* name is under z, in any order
TransferOf(records, z) ==
    Orders({r \in records : r.Rrtype = "PTR" /\ HasSuffix(r.Name, <<".">> \o z)})

\* the call is made again, as the caller does after a failure or to see that
\* nothing is left to do: from is now the device List builds for to.Name from
\* the records the directory holds
Again ==
    /\ pc = "return" /\ run = 1 /\ entry = "Update"
    /\ \E fwd \in Orders({r \in dir : r.Rrtype = "CNAME"}),
          t1 \in TransferOf(dir, PrivateZones[1]),
          t2 \in TransferOf(dir, PrivateZones[2]),
          t3 \in TransferOf(dir, PrivateZones[3]) :
         \E inv \in List(<<A(Fqdn(to.Name), NoIP)>> \o fwd,
                         <<[zone |-> PrivateZones[1], rr |-> t1],
                           [zone |-> PrivateZones[2], rr |-> t2],
                           [zone |-> PrivateZones[3], rr |-> t3]>>) :
            from' = inv[1]
    /\ first' = [err |-> err, log |-> log, from |-> from]
    /\ run' = 2
    /\ pc' = Loops(entry)[1]
    /\ idx' = 1
    /\ todo' = KeysOf(pc', from', to)
    /\ queue' = <<>>
    /\ log' = <<>>
    /\ err' = "none"
    /\ UNCHANGED <<zone, ttl, to, entry, dir>>
    /\ UNCHANGED <<fnVars, listVars>>

NextUpdate ==
    \/ Again
    \/ ReverseExtra
    \/ ReverseMissing
    \/ AliasExtra
    \/ AliasMissing
    \/ MappingExtra
    \/ MappingMissing
    \/ LoopDone
    \/ Exchange
    \/ ExchangeFails

SpecUpdate == InitUpdate /\ [][NextUpdate]_vars

----------------------------------------------------------------------------
(* No call of Update is in progress.                                        *)

UpdateIdle ==
    /\ zone = <<>> /\ ttl = 0 /\ from = <<>> /\ to = <<>> /\ entry = "none"
    /\ pc = "return" /\ idx = 1 /\ todo = {} /\ queue = <<>> /\ log = <<>>
    /\ dir = {} /\ err = "none" /\ run = 1 /\ first = <<>>

----------------------------------------------------------------------------
(* findPrivateZone, called on its own.                                      *)

FirstBytes == {8, 10, 100, 172, 192}
SecondBytes == {0, 15, 16, 17, 31, 32, 160, 168}
LastBytes == {1, 10}

InitZone ==
    /\ UpdateIdle /\ ListIdle
    /\ \E a \in FirstBytes, b \in SecondBytes, d \in LastBytes, z \in Zones :
          call = [fn |-> "findPrivateZone", ip |-> <<a, b, 0, d>>, zone |-> z]
    /\ ret = [done |-> FALSE]

FindPrivateZone ==
    /\ call.fn = "findPrivateZone" /\ ~ret.done
    /\ ret' = [done |-> TRUE, value |-> findPrivateZone(call.ip, call.zone)]
    /\ UNCHANGED <<call, updVars, listVars>>

NextZone == FindPrivateZone

SpecZone == InitZone /\ [][NextZone]_vars

----------------------------------------------------------------------------
(* Service.List, as a state machine.                                        *)

Addr10x2 == <<10, 0, 0, 2>>

\* the records the forward zones may hold
ForwardRecords ==
    {A(HostH, Addr100), A(HostG, Addr192x16), A(AliasC, Addr192x16),
     CNAME(AliasC, 60, HostH), CNAME(AliasC, 60, HostG), CNAME(AliasC, 60, AliasC),
     CNAME(AliasD, 60, HostH), CNAME(AliasD, 60, AliasC)}

\* the records the reverse zone 10.in-addr.arpa. may hold
ReverseRecords ==
    {PTR(reverseAddress(Addr10), 60, AliasC), PTR(reverseAddress(Addr10), 60, HostH),
     PTR(reverseAddress(Addr10x2), 60, AliasC), PTR(reverseAddress(Addr10x2), 60, AliasD)}

InitList ==
    /\ UpdateIdle /\ FnIdle
    /\ \E rr \in Slices(ForwardRecords, MaxFwd), pt \in Slices(ReverseRecords, MaxPtr) :
          transfers = [zones |-> <<[zone |-> ZoneForward, rr |-> rr]>>,
                       reverse |-> <<[zone |-> Zone10, rr |-> pt]>>]
    /\ out = [done |-> FALSE]

\* "rr = append(rr, r...)" over the forward zones
RECURSIVE Concat(_)
Concat(z) == IF Len(z) = 0 THEN <<>> ELSE z[1].rr \o Concat(Tail(z))

\* every transfer delivers its records: List returns an inventory and nil
ListBuild ==
    /\ ~out.done
    /\ \E inv \in List(Concat(transfers.zones), transfers.reverse) :
          out' = [done |-> TRUE, err |-> "nil", devices |-> inv]
    /\ UNCHANGED <<transfers, updVars, fnVars>>

\* Service.Transfer returns an error for one of the zones: List returns nil and
\* that error
ListTransferFails ==
    /\ ~out.done
    /\ out' = [done |-> TRUE, err |-> "error", devices |-> <<>>]
    /\ UNCHANGED <<transfers, updVars, fnVars>>

NextList == ListBuild \/ ListTransferFails

SpecList == InitList /\ [][NextList]_vars

----------------------------------------------------------------------------
(* Service.List reading back a reverse-pointer record named by              *)
(* reverseAddress.                                                          *)

\* the reverse zones a reverse name can be transferred from: in-addr.arpa.
\* and the zones of one, two, three and four bytes of the address
ReverseZonesOf(ip) ==
    {Tail(InAddrArpa),
     Itoa(ip[1]) \o InAddrArpa,
     Itoa(ip[2]) \o <<".">> \o Itoa(ip[1]) \o InAddrArpa,
     Itoa(ip[3]) \o <<".">> \o Itoa(ip[2]) \o <<".">> \o Itoa(ip[1]) \o InAddrArpa,
     reverseAddress(ip)}

InitInverse ==
    /\ UpdateIdle /\ FnIdle
    /\ \E a \in FirstBytes, b \in SecondBytes, c \in {0, 10}, d \in LastBytes :
          \E z \in ReverseZonesOf(<<a, b, c, d>>) :
             transfers = [zones |-> <<[zone |-> ZoneForward, rr |-> <<A(HostH, Addr100)>>]>>,
                          reverse |-> <<[zone |-> z,
                                         rr |-> <<PTR(reverseAddress(<<a, b, c, d>>), 60,
                                                      HostH)>>]>>]
    /\ out = [done |-> FALSE]

SpecInverse == InitInverse /\ [][NextList]_vars

----------------------------------------------------------------------------
(* Service.List transfer by transfer, and called a second time.             *)

ZoneOther == <<"y", ".">>

\* the location record of the device of the tests: 41 17 25.580 S,
\* 174 46 53.746 E, 21m
TestLat32 == NSub(LOC_EQUATOR, NFromInt(148645580))
TestLon32 == NAdd(LOC_PRIMEMERIDIAN, NFromInt(629213746))
TestAlt32 == NFromInt(10002100)

\* the records the first forward zone may hold
BuildRecords ==
    {A(HostH, Addr100), A(HostG, Addr192x16),
     CNAME(AliasC, 60, HostH), CNAME(AliasD, 60, HostH),
     TXT(HostH, <<<<"p">>, <<"q">>>>)}

\* the records the second forward zone may hold
OtherRecords ==
    {A(HostH, Addr192x16), HINFO(HostH, <<"m">>, <<"k">>),
     LOC(HostH, TestLat32, TestLon32, TestAlt32)}

\* the records the reverse zone may hold
BuildPointers ==
    {PTR(reverseAddress(Addr10), 60, AliasC), PTR(reverseAddress(Addr10x2), 60, AliasC)}

\* the transfers List makes, in its order: the reverse zones, then the
\* forward zones
BuildTransfers == transfers.reverse \o transfers.zones

InitBuild ==
    /\ UpdateIdle /\ FnIdle
    /\ \E r1 \in Slices(BuildRecords, MaxBuildFwd),
          r2 \in {<<>>} \cup {<<r>> : r \in OtherRecords},
          pt \in Slices(BuildPointers, MaxBuildPtr) :
          transfers = [zones |-> <<[zone |-> ZoneForward, rr |-> r1],
                                   [zone |-> ZoneOther, rr |-> r2]>>,
                       reverse |-> <<[zone |-> Zone10, rr |-> pt]>>]
    /\ out = [done |-> FALSE, step |-> 0, ptrs |-> <<>>, rr |-> <<>>,
              received |-> <<>>, again |-> <<>>]

\* "return nil, err" keeping an inventory of what had arrived
ListOnTransferErrorPartial(ptrs, rr, received) ==
    CHOOSE inv \in ListFrom(ptrs, rr \o received) : TRUE

\* "return nil, err": what List returns as its devices when a transfer fails
ListOnTransferError(ptrs, rr, received) == <<>>

\* the transfer of a reverse zone delivers its records: its PTR records go
\* into ptrs
BuildReverse ==
    /\ ~out.done /\ out.step < Len(transfers.reverse)
    /\ LET z == transfers.reverse[out.step + 1]
       IN  out' = [out EXCEPT !.step = @ + 1, !.ptrs = ListPtrsOfZone(@, z.zone, z.rr)]
    /\ UNCHANGED <<transfers, updVars, fnVars>>

\* the transfer of a forward zone delivers its records: they are appended to
\* rr
BuildForward ==
    /\ ~out.done
    /\ out.step >= Len(transfers.reverse) /\ out.step < Len(BuildTransfers)
    /\ out' = [out EXCEPT !.step = @ + 1, !.rr = @ \o BuildTransfers[out.step + 1].rr]
    /\ UNCHANGED <<transfers, updVars, fnVars>>

\* the transfer in turn fails, at connection time (nothing received) or with
\* an error envelope after n of its records: Transfer returns nil and the
\* error, and so does List
BuildTransferFails ==
    /\ ~out.done /\ out.step < Len(BuildTransfers)
    /\ \E n \in 0..Len(BuildTransfers[out.step + 1].rr) :
          LET received == SubSeq(BuildTransfers[out.step + 1].rr, 1, n)
          IN  out' = [done |-> TRUE, err |-> "error",
                      devices |-> ListOnTransferError(out.ptrs, out.rr, received),
                      step |-> out.step, ptrs |-> out.ptrs, rr |-> out.rr,
                      received |-> received, again |-> <<>>]
    /\ UNCHANGED <<transfers, updVars, fnVars>>

\* every transfer has delivered: List builds the inventory and returns it
BuildReturn ==
    /\ ~out.done /\ out.step = Len(BuildTransfers)
    /\ \E inv \in ListFrom(out.ptrs, out.rr) :
          out' = [done |-> TRUE, err |-> "nil", devices |-> inv,
                  step |-> out.step, ptrs |-> out.ptrs, rr |-> out.rr,
                  received |-> <<>>, again |-> <<>>]
    /\ UNCHANGED <<transfers, updVars, fnVars>>

\* s itself and s with two of its elements in each other's place
Reordered(s) ==
    {[i \in DOMAIN s |-> IF i = j THEN s[k] ELSE IF i = k THEN s[j] ELSE s[i]] :
        j \in DOMAIN s, k \in DOMAIN s}

\* List is called once more and every transfer delivers: the zones hold the
\* same records, in the same order or with two records in each other's place
BuildAgain ==
    /\ out.done /\ out.err = "nil" /\ out.again = <<>>
    /\ \E rr \in Reordered(Concat(transfers.zones)),
          pt \in Reordered(Concat(transfers.reverse)) :
          \E inv \in List(rr, <<[zone |-> Zone10, rr |-> pt]>>) :
             out' = [out EXCEPT !.again = [rr |-> rr, reverse |-> pt, devices |-> inv]]
    /\ UNCHANGED <<transfers, updVars, fnVars>>

NextBuild ==
    \/ BuildReverse
    \/ BuildForward
    \/ BuildTransferFails
    \/ BuildReturn
    \/ BuildAgain

SpecBuild == InitBuild /\ [][NextBuild]_vars

----------------------------------------------------------------------------
(* Device.Location, Device.SetLocation, Device.AtLocation and Device.ToLOC, *)
(* called on their own.                                                     *)

\* the device of the tests
TestLatitude == FDecimal(1, <<4, 1, 2, 9, 0, 4, 3, 8, 8, 8, 8, 8, 8, 8, 8, 8, 6>>, 15)
TestLongitude == FDecimal(0, <<1, 7, 4, 7, 8, 1, 5, 9, 6, 1, 1, 1, 1, 1, 1, 1>>, 13)
TestHeight == FDecimal(0, <<2, 1>>, 0)

\* latitudes from -90 to 90: the ends, zero, the test device, whole and
\* fractional numbers of thousandths of an arc second
Latitudes ==
    {FDecimal(1, <<9, 0>>, 0), FDecimal(0, <<9, 0>>, 0), FDecimal(0, <<0>>, 0),
     TestLatitude, FDecimal(0, <<4, 5, 5>>, 1), FDecimal(0, <<2>>, 7),
     FDecimal(1, <<1>>, 7)}

\* longitudes from -180 to 180
Longitudes ==
    {FDecimal(1, <<1, 8, 0>>, 0), FDecimal(0, <<1, 8, 0>>, 0), FDecimal(0, <<0>>, 0),
     TestLongitude, FDecimal(0, <<2>>, 7)}

\* heights from -100000 to 42849572.95
Heights ==
    {FDecimal(1, <<1, 0, 0, 0, 0, 0>>, 0), FDecimal(0, <<4, 2, 8, 4, 9, 5, 7, 2, 9, 5>>, 2),
     TestHeight, FDecimal(0, <<0>>, 0), FDecimal(0, <<9>>, 3),
     FDecimal(0, <<2, 1, 2, 9>>, 2), FDecimal(1, <<9, 9, 9, 9, 9, 9, 9>>, 2)}

\* the 32-bit values of a location record: latitudes and longitudes around
\* 2^31 and at the ends, altitudes from 0
Lat32s == {NFromInt(0), NSub(LOC_EQUATOR, <<1>>), LOC_EQUATOR, NAdd(LOC_EQUATOR, <<1>>),
           TestLat32, NSub(NShl(<<1>>, 32), <<1>>)}
Lon32s == {LOC_PRIMEMERIDIAN, NAdd(LOC_PRIMEMERIDIAN, <<7>>), TestLon32}
Alt32s == {NFromInt(0), NFromInt(1), NFromInt(2), NFromInt(3), NFromInt(4),
           NFromInt(10002100), NFromInt(10002129), NSub(NShl(<<1>>, 32), <<1>>)}

\* the names a device is projected with
LocNames == {<<>>, <<"h">>, HostH}

\* a device at a location
DeviceAt(name, lat, lon, h) ==
    [Device(name, Addr100, <<>>, <<>>, <<>>)
        EXCEPT !.Latitude = lat, !.Longitude = lon, !.Height = h]

InitLoc ==
    /\ UpdateIdle /\ ListIdle
    /\ \/ \E lat \in Latitudes, lon \in Longitudes, h \in Heights :
             call = [fn |-> "Location", d |-> DeviceAt(HostH, lat, lon, h)]
       \/ \E lat \in Lat32s, lon \in Lon32s, alt \in Alt32s :
             call = [fn |-> "SetLocation", d |-> Device(HostH, Addr100, <<>>, <<>>, <<>>),
                     lat |-> lat, lon |-> lon, alt |-> alt]
       \/ \E n \in LocNames, lat \in {TestLatitude, FDecimal(0, <<2>>, 7)},
              h \in {TestHeight, FDecimal(0, <<9>>, 3)} :
             call = [fn |-> "ToLOC", d |-> DeviceAt(n, lat, TestLongitude, h)]
    /\ ret = [step |-> 0]

\* la, lo, a := d.Location()
LocationCall ==
    /\ call.fn = "Location" /\ ret.step = 0
    /\ ret' = [step |-> 1, value |-> Location(call.d)]
    /\ UNCHANGED <<call, updVars, listVars>>

\* d.SetLocation(la, lo, a) with the values Location has returned
SetLocationBack ==
    /\ call.fn = "Location" /\ ret.step = 1
    /\ ret' = [step |-> 2, value |-> ret.value,
               device |-> SetLocation(call.d, ret.value[1], ret.value[2], ret.value[3])]
    /\ UNCHANGED <<call, updVars, listVars>>

\* d.SetLocation(lat, lon, alt)
SetLocationCall ==
    /\ call.fn = "SetLocation" /\ ret.step = 0
    /\ ret' = [step |-> 1, device |-> SetLocation(call.d, call.lat, call.lon, call.alt)]
    /\ UNCHANGED <<call, updVars, listVars>>

\* d.Location() and d.AtLocation(lat, lon, alt) after it
AtLocationCall ==
    /\ call.fn = "SetLocation" /\ ret.step = 1
    /\ ret' = [step |-> 2, device |-> ret.device, value |-> Location(ret.device),
               at |-> AtLocation(ret.device, call.lat, call.lon, call.alt)]
    /\ UNCHANGED <<call, updVars, listVars>>

\* d.ToLOC()
ToLOCCall ==
    /\ call.fn = "ToLOC" /\ ret.step = 0
    /\ ret' = [step |-> 1, value |-> ToLOC(call.d)]
    /\ UNCHANGED <<call, updVars, listVars>>

NextLoc ==
    \/ LocationCall
    \/ SetLocationBack
    \/ SetLocationCall
    \/ AtLocationCall
    \/ ToLOCCall

SpecLoc == InitLoc /\ [][NextLoc]_vars

----------------------------------------------------------------------------
(* cm2size, one turn of its loop at a time.                                 *)

\* centimetre values with up to ten digits, 2^32 - 1 the largest
LargeCms ==
    {NFromInt(999), NFromInt(1000), NFromInt(5000), NFromInt(9999), NFromInt(10000),
     NFromInt(99999), NFromInt(999999999), NFromInt(1000000000),
     NSub(NShl(<<1>>, 31), <<1>>), NShl(<<1>>, 31),
     NFromDigits(<<3, 9, 9, 9, 9, 9, 9, 9, 9, 9>>), NFromDigits(<<4, 0, 0, 0, 0, 0, 0, 0, 0, 0>>),
     NSub(NShl(<<1>>, 32), <<1>>)}

InitSize ==
    /\ UpdateIdle /\ ListIdle
    /\ \E c \in {NFromInt(i) : i \in 0..MaxCm} \cup LargeCms :
          /\ call = [fn |-> "cm2size", cms |-> c]
          /\ ret = [done |-> FALSE, v |-> c, e |-> 0]

\* one turn of the loop: v = v / 10, e = e + 1
Cm2sizeTurn ==
    /\ call.fn = "cm2size" /\ ~ret.done /\ cm2sizeContinues(ret.v)
    /\ ret' = [ret EXCEPT !.v = NDivSmall(ret.v, 10).q, !.e = ret.e + 1]
    /\ UNCHANGED <<call, updVars, listVars>>

\* the loop left and the byte returned
Cm2sizeReturn ==
    /\ call.fn = "cm2size" /\ ~ret.done /\ ~cm2sizeContinues(ret.v)
    /\ ret' = [done |-> TRUE, v |-> ret.v, e |-> ret.e,
               value |-> cm2sizePacked(ret.v, ret.e)]
    /\ UNCHANGED <<call, updVars, listVars>>

NextSize == Cm2sizeTurn \/ Cm2sizeReturn

\* the function runs on until it returns
SpecSize == InitSize /\ [][NextSize]_vars /\ WF_vars(NextSize)

----------------------------------------------------------------------------
(* Device.Equal, called on its own.                                         *)

\* a device with every field given
FullDevice(name, ip, reverse, code, model, loc, rest) ==
    [Name |-> name, IP |-> ip, Reverse |-> reverse, Mapping |-> rest.Mapping,
     Aliases |-> rest.Aliases, Place |-> rest.Place, Model |-> model, Code |-> code,
     Latitude |-> loc[1], Longitude |-> loc[2], Height |-> loc[3]]

\* locations: the zero value, one a fraction of a unit north of it, and the
\* device of the tests
EqualLocs ==
    {<<F64(0, <<>>, 0), F64(0, <<>>, 0), F64(0, <<>>, 0)>>,
     <<FDecimal(0, <<2>>, 7), F64(0, <<>>, 0), F64(0, <<>>, 0)>>,
     <<TestLatitude, TestLongitude, TestHeight>>}

\* the fields Equal does not read: none set, all set
EqualRest ==
    {[Place |-> <<>>, Aliases |-> <<>>, Mapping |-> <<>>],
     [Place |-> <<"p">>, Aliases |-> <<AliasC>>, Mapping |-> (AliasC :> Addr172x16)]}

\* the receivers of Equal
EqualReceivers ==
    {FullDevice(HostH, Addr100, rv, <<"k">>, <<"m">>, l, r) :
        rv \in {<<>>, <<Addr192x168, Addr10>>},
        l \in {<<F64(0, <<>>, 0), F64(0, <<>>, 0), F64(0, <<>>, 0)>>,
               <<TestLatitude, TestLongitude, TestHeight>>},
        r \in EqualRest}

\* the arguments of Equal
EqualArguments ==
    {FullDevice(n, ip, rv, c, m, l, r) :
        n \in {HostH, <<"H", ".">>, HostG}, ip \in {Addr100, Addr10, Addr172x16},
        rv \in {<<>>, <<Addr100>>}, c \in {<<"k">>, <<"K">>, <<"j">>},
        m \in {<<"m">>, <<"M">>}, l \in EqualLocs, r \in EqualRest}

InitEqual ==
    /\ UpdateIdle /\ ListIdle
    /\ \E d \in EqualReceivers, e \in EqualArguments :
          call = [fn |-> "Equal", d |-> d, device |-> e]
    /\ ret = [done |-> FALSE]

\* d.Equal(device)
EqualCall ==
    /\ call.fn = "Equal" /\ ~ret.done
    /\ ret' = [done |-> TRUE, value |-> Equal(call.d, call.device)]
    /\ UNCHANGED <<call, updVars, listVars>>

\* device.Equal(d), the same two devices the other way round
EqualConverse ==
    /\ call.fn = "Equal" /\ ret.done /\ "converse" \notin DOMAIN ret
    /\ ret' = [done |-> TRUE, value |-> ret.value,
               converse |-> Equal(call.device, call.d)]
    /\ UNCHANGED <<call, updVars, listVars>>

NextEqual == EqualCall \/ EqualConverse

SpecEqual == InitEqual /\ [][NextEqual]_vars

----------------------------------------------------------------------------
(* Devices: the queries on an inventory.                                    *)

\* the nil pointer a query returns
NilDevice == [nil |-> TRUE]

\* d.Find(name): the first device of the list with that very name
Find(d, name) ==
    IF \E i \in DOMAIN d.List : d.List[i].Name = name
    THEN d.List[CHOOSE i \in DOMAIN d.List :
                    /\ d.List[i].Name = name
                    /\ \A j \in 1..(i - 1) : d.List[j].Name # name]
    ELSE NilDevice

\* d.FindByIP(ip): the first device of the list with that primary address
FindByIP(d, ip) ==
    IF \E i \in DOMAIN d.List : IPEqual(d.List[i].IP, ip)
    THEN d.List[CHOOSE i \in DOMAIN d.List :
                    /\ IPEqual(d.List[i].IP, ip)
                    /\ \A j \in 1..(i - 1) : ~IPEqual(d.List[j].IP, ip)]
    ELSE NilDevice

\* d.ListByModel(model)
ListByModel(d, model) == [List |-> SelectSeq(d.List, LAMBDA s : HasModel(s, model))]

\* the loop of Devices.ListByCode putting each device before those it has
RECURSIVE ListByCodeNewestFirst(_, _)
ListByCodeNewestFirst(d, code) ==
    IF d.List = <<>> THEN [List |-> <<>>]
    ELSE LET l == ListByCodeNewestFirst([List |-> Tail(d.List)], code)
         IN  IF ~HasCode(Head(d.List), code) THEN l
             ELSE [List |-> Append(l.List, Head(d.List))]

\* d.ListByCode(code)
ListByCode(d, code) == [List |-> SelectSeq(d.List, LAMBDA s : HasCode(s, code))]

\* d.ListByPlace(place)
ListByPlace(d, place) == [List |-> SelectSeq(d.List, LAMBDA s : AtPlace(s, place))]

\* d.ListByModelAndCode(model, code)
ListByModelAndCode(d, model, code) ==
    [List |-> SelectSeq(d.List, LAMBDA s : HasModel(s, model) /\ HasCode(s, code))]

\* the parentheses of an expression pair up, depth being those still open
RECURSIVE ParensPair(_, _)
ParensPair(expr, depth) ==
    IF expr = <<>> THEN depth = 0
    ELSE IF Head(expr) = "(" THEN ParensPair(Tail(expr), depth + 1)
    ELSE IF Head(expr) = ")" THEN depth > 0 /\ ParensPair(Tail(expr), depth - 1)
    ELSE ParensPair(Tail(expr), depth)

\* regexp.Compile(expr) gives an error, for the expressions of the model
\* (letters, ".", "*", "^", "$", and the brackets that are left unpaired):
\* a "*" with nothing to repeat or on another "*", a parenthesis without
\* its partner, a "[" that is not closed
CompileFails(expr) ==
    \/ \E i \in DOMAIN expr :
          expr[i] = "*" /\ (i = 1 \/ expr[i - 1] \in {"*", "("})
    \/ ~ParensPair(expr, 0)
    \/ \E i \in DOMAIN expr :
          expr[i] = "[" /\ \A j \in (i + 1)..Len(expr) : expr[j] # "]"

\* the rest of a compiled expression matches s from byte i on
RECURSIVE MatchHere(_, _, _)
MatchHere(expr, s, i) ==
    IF expr = <<>> THEN TRUE
    ELSE IF expr[1] = "^" THEN i = 1 /\ MatchHere(Tail(expr), s, i)
    ELSE IF expr[1] = "$" THEN i = Len(s) + 1 /\ MatchHere(Tail(expr), s, i)
    ELSE IF Len(expr) >= 2 /\ expr[2] = "*"
         THEN \E k \in 0..(Len(s) - i + 1) :
                 /\ \A j \in i..(i + k - 1) : expr[1] = "." \/ s[j] = expr[1]
                 /\ MatchHere(Tail(Tail(expr)), s, i + k)
    ELSE /\ i <= Len(s)
         /\ expr[1] = "." \/ expr[1] = s[i]
         /\ MatchHere(Tail(expr), s, i + 1)

\* re.MatchString(s): the expression matches somewhere in s
MatchString(expr, s) == \E i \in 1..(Len(s) + 1) : MatchHere(expr, s, i)

\* d.MatchByName(name)
MatchByName(d, name) ==
    IF CompileFails(name) THEN [err |-> "error"]
    ELSE [l |-> [List |-> SelectSeq(d.List, LAMBDA s : MatchString(name, s.Name))],
          err |-> "nil"]

\* d.MustMatchByName(name)
MustMatchByName(d, name) ==
    IF CompileFails(name) THEN [panic |-> TRUE]
    ELSE [List |-> SelectSeq(d.List, LAMBDA s : MatchString(name, s.Name))]

\* d.MatchByModel(model)
MatchByModel(d, model) ==
    IF CompileFails(model) THEN [err |-> "error"]
    ELSE [l |-> [List |-> SelectSeq(d.List, LAMBDA s : MatchString(model, s.Model))],
          err |-> "nil"]

\* d.MustMatchByModel(model)
MustMatchByModel(d, model) ==
    IF CompileFails(model) THEN [panic |-> TRUE]
    ELSE [List |-> SelectSeq(d.List, LAMBDA s : MatchString(model, s.Model))]

\* d.MatchByPlace(place)
MatchByPlace(d, place) ==
    IF CompileFails(place) THEN [err |-> "error"]
    ELSE [l |-> [List |-> SelectSeq(d.List, LAMBDA s : MatchString(place, s.Place))],
          err |-> "nil"]

\* d.MustMatchByPlace(place)
MustMatchByPlace(d, place) ==
    IF CompileFails(place) THEN [panic |-> TRUE]
    ELSE [List |-> SelectSeq(d.List, LAMBDA s : MatchString(place, s.Place))]

\* the names of the devices of an inventory
QueryNames == {HostG, <<"g", "h", ".">>, HostH}

\* what else a device of an inventory has
QueryAttrs ==
    {[Code |-> <<"k">>, Model |-> <<"m">>, Place |-> <<"p">>, IP |-> Addr10],
     [Code |-> <<"K">>, Model |-> <<"M">>, Place |-> <<"P">>, IP |-> Addr100],
     [Code |-> <<"j">>, Model |-> <<"m", "m">>, Place |-> <<"p", "q">>, IP |-> Addr10],
     [Code |-> <<>>, Model |-> <<>>, Place |-> <<>>, IP |-> Addr172x16]}

QueryDevice(n, a) ==
    FullDevice(n, a.IP, <<>>, a.Code, a.Model,
               <<F64(0, <<>>, 0), F64(0, <<>>, 0), F64(0, <<>>, 0)>>,
               [Place |-> a.Place, Aliases |-> <<>>, Mapping |-> <<>>])

\* the inventories queried: as Service.List returns them, one device a
\* name, sorted by name
Inventories ==
    {[List |-> [i \in 1..Cardinality(S) |-> QueryDevice(SortedKeys(S)[i], f[SortedKeys(S)[i]])]] :
        <<S, f>> \in {<<S, f>> \in (SUBSET QueryNames) \X
                                   [QueryNames -> QueryAttrs] :
                         \A n \in QueryNames \ S : f[n] = f[HostH] \/ n = HostH}}

\* the strings the queries are given, expressions among them
QueryStrings ==
    {<<>>, <<"k">>, <<"K">>, <<"m">>, <<"M">>, <<"p">>, <<"P">>, <<"p", "q">>,
     HostG, HostH, <<"H", ".">>, <<"g">>, <<"^", "h">>, <<"m", "*", "$">>,
     <<"^", "p", "$">>, <<"p", ".">>, <<"(">>, <<")">>, <<"*">>, <<"m", "*", "*">>,
     <<"[", "p">>}

InitQuery ==
    /\ UpdateIdle /\ ListIdle
    /\ \E d \in Inventories :
          \/ \E fn \in {"Find", "ListByModel", "ListByCode", "ListByPlace",
                        "MatchByName", "MustMatchByName", "MatchByModel",
                        "MustMatchByModel", "MatchByPlace", "MustMatchByPlace"},
                arg \in QueryStrings :
                call = [fn |-> fn, d |-> d, arg |-> arg]
          \/ \E ip \in {Addr10, Addr100, Addr192x168} :
                call = [fn |-> "FindByIP", d |-> d, ip |-> ip]
          \/ \E model \in {<<"m">>, <<"M">>}, code \in {<<"k">>, <<"K">>, <<"j">>} :
                call = [fn |-> "ListByModelAndCode", d |-> d, model |-> model,
                        code |-> code]
          \/ \E fn \in {"HasName", "HasCode", "AtPlace", "HasModel"},
                arg \in QueryStrings :
                /\ Len(d.List) = 1
                /\ call = [fn |-> fn, d |-> d, arg |-> arg]
    /\ ret = [done |-> FALSE]

\* what a call leaves behind: the inventory as it is afterwards, and what
\* was returned
Answer(value) == [done |-> TRUE, d |-> call.d, value |-> value]

FindCall ==
    /\ call.fn = "Find" /\ ~ret.done
    /\ ret' = Answer(Find(call.d, call.arg))
    /\ UNCHANGED <<call, updVars, listVars>>

FindByIPCall ==
    /\ call.fn = "FindByIP" /\ ~ret.done
    /\ ret' = Answer(FindByIP(call.d, call.ip))
    /\ UNCHANGED <<call, updVars, listVars>>

ListByModelCall ==
    /\ call.fn = "ListByModel" /\ ~ret.done
    /\ ret' = Answer(ListByModel(call.d, call.arg))
    /\ UNCHANGED <<call, updVars, listVars>>

ListByCodeCall ==
    /\ call.fn = "ListByCode" /\ ~ret.done
    /\ ret' = Answer(ListByCode(call.d, call.arg))
    /\ UNCHANGED <<call, updVars, listVars>>

ListByPlaceCall ==
    /\ call.fn = "ListByPlace" /\ ~ret.done
    /\ ret' = Answer(ListByPlace(call.d, call.arg))
    /\ UNCHANGED <<call, updVars, listVars>>

ListByModelAndCodeCall ==
    /\ call.fn = "ListByModelAndCode" /\ ~ret.done
    /\ ret' = Answer(ListByModelAndCode(call.d, call.model, call.code))
    /\ UNCHANGED <<call, updVars, listVars>>

MatchByNameCall ==
    /\ call.fn = "MatchByName" /\ ~ret.done
    /\ ret' = Answer(MatchByName(call.d, call.arg))
    /\ UNCHANGED <<call, updVars, listVars>>

MustMatchByNameCall ==
    /\ call.fn = "MustMatchByName" /\ ~ret.done
    /\ ret' = Answer(MustMatchByName(call.d, call.arg))
    /\ UNCHANGED <<call, updVars, listVars>>

MatchByModelCall ==
    /\ call.fn = "MatchByModel" /\ ~ret.done
    /\ ret' = Answer(MatchByModel(call.d, call.arg))
    /\ UNCHANGED <<call, updVars, listVars>>

MustMatchByModelCall ==
    /\ call.fn = "MustMatchByModel" /\ ~ret.done
    /\ ret' = Answer(MustMatchByModel(call.d, call.arg))
    /\ UNCHANGED <<call, updVars, listVars>>

MatchByPlaceCall ==
    /\ call.fn = "MatchByPlace" /\ ~ret.done
    /\ ret' = Answer(MatchByPlace(call.d, call.arg))
    /\ UNCHANGED <<call, updVars, listVars>>

MustMatchByPlaceCall ==
    /\ call.fn = "MustMatchByPlace" /\ ~ret.done
    /\ ret' = Answer(MustMatchByPlace(call.d, call.arg))
    /\ UNCHANGED <<call, updVars, listVars>>

\* s.HasName(arg) on the one device s of the inventory
HasNameCall ==
    /\ call.fn = "HasName" /\ ~ret.done
    /\ ret' = Answer(HasName(call.d.List[1], call.arg))
    /\ UNCHANGED <<call, updVars, listVars>>

HasCodeCall ==
    /\ call.fn = "HasCode" /\ ~ret.done
    /\ ret' = Answer(HasCode(call.d.List[1], call.arg))
    /\ UNCHANGED <<call, updVars, listVars>>

AtPlaceCall ==
    /\ call.fn = "AtPlace" /\ ~ret.done
    /\ ret' = Answer(AtPlace(call.d.List[1], call.arg))
    /\ UNCHANGED <<call, updVars, listVars>>

HasModelCall ==
    /\ call.fn = "HasModel" /\ ~ret.done
    /\ ret' = Answer(HasModel(call.d.List[1], call.arg))
    /\ UNCHANGED <<call, updVars, listVars>>

NextQuery ==
    \/ FindCall \/ FindByIPCall
    \/ ListByModelCall \/ ListByCodeCall \/ ListByPlaceCall \/ ListByModelAndCodeCall
    \/ MatchByNameCall \/ MustMatchByNameCall
    \/ MatchByModelCall \/ MustMatchByModelCall
    \/ MatchByPlaceCall \/ MustMatchByPlaceCall
    \/ HasNameCall \/ HasCodeCall \/ AtPlaceCall \/ HasModelCall

SpecQuery == InitQuery /\ [][NextQuery]_vars

----------------------------------------------------------------------------
(* What the claims speak of.                                                *)

\* the reverse name of an address: its four bytes, last first, under
\* in-addr.arpa.
ReverseName(ip) == Itoa(ip[4]) \o <<".">> \o Itoa(ip[3]) \o <<".">> \o Itoa(ip[2])
                   \o <<".">> \o Itoa(ip[1]) \o InAddrArpa

\* a removal of the record set of a name and type, as it is sent
Removal(z, name, type) == [op |-> "RemoveRRset", zone |-> z, Name |-> name, Rrtype |-> type]

\* an insertion of a record, as it is sent
Insertion(z, name, type, t, target) ==
    [op |-> "Insert", zone |-> z, Name |-> name, Rrtype |-> type, Ttl |-> t,
     Target |-> target]

\* an insertion of a record, whatever its TTL
InsertionAnyTtl(z, name, type, target) ==
    [op |-> "Insert", zone |-> z, Name |-> name, Rrtype |-> type, Target |-> target]

\* a transaction of the log as it is sent: a removal names a record set only
Wire(e) ==
    IF e.tx.op = "RemoveRRset"
    THEN Removal(e.tx.zone, e.tx.rr.Name, e.tx.rr.Rrtype)
    ELSE Insertion(e.tx.zone, e.tx.rr.Name, e.tx.rr.Rrtype, e.tx.rr.Ttl, e.tx.rr.Target)

WireAnyTtl(e) ==
    IF e.tx.op = "RemoveRRset"
    THEN Removal(e.tx.zone, e.tx.rr.Name, e.tx.rr.Rrtype)
    ELSE InsertionAnyTtl(e.tx.zone, e.tx.rr.Name, e.tx.rr.Rrtype, e.tx.rr.Target)

Sent == [i \in DOMAIN log |-> Wire(log[i])]
SentAnyTtl == [i \in DOMAIN log |-> WireAnyTtl(log[i])]

IsPrefix(s, t) == Len(s) <= Len(t) /\ SubSeq(t, 1, Len(s)) = s

Returned == pc = "return"
ReturnedNil == pc = "return" /\ err = "nil"
ReturnedError == pc = "return" /\ err = "error"

\* the address is routed to a zone other than the caller's
Routed(a) == findPrivateZone(a, zone) # zone

\* the records left after the accepted transactions of a log
RECURSIVE ApplyAll(_, _)
ApplyAll(records, l) ==
    IF Len(l) = 0 THEN records
    ELSE ApplyAll(IF l[1].ok THEN Apply(records, l[1].tx) ELSE records, Tail(l))

\* the records the directory held when the call in progress was made
StartDir == IF run = 1 THEN Publish(from) ELSE ApplyAll(Publish(first.from), first.log)

----------------------------------------------------------------------------
\* C1: starting from a directory that publishes exactly from, when Update
\* returns nil the directory publishes exactly to: a PTR to to.Name at the
\* reverse name of every routed address of to.Reverse, a CNAME to to.Name at
\* every alias of to.Aliases, a PTR to the mapping name at the reverse name of
\* every routed pair of to.Mapping, and no such record of an element of from
\* that to does not have.
C1_UpdatePublishesTo ==
    (entry = "Update" /\ run = 1 /\ ReturnedNil) =>
        /\ \A a \in Range(to.Reverse) :
              Routed(a) => \E r \in dir : /\ r.Rrtype = "PTR" /\ r.Name = ReverseName(a)
                                          /\ r.Target = Fqdn(to.Name)
        /\ \A c \in Range(to.Aliases) :
              \E r \in dir : r.Rrtype = "CNAME" /\ r.Name = Fqdn(c) /\ r.Target = Fqdn(to.Name)
        /\ \A n \in DOMAIN to.Mapping :
              Routed(to.Mapping[n]) =>
                 \E r \in dir : /\ r.Rrtype = "PTR" /\ r.Name = ReverseName(to.Mapping[n])
                                /\ r.Target = Fqdn(n)
        /\ \A a \in Range(from.Reverse) \ Range(to.Reverse) :
              Routed(a) =>
              ~\E r \in dir : /\ r.Rrtype = "PTR" /\ r.Name = ReverseName(a)
                              /\ r.Target = Fqdn(from.Name)
        /\ \A c \in Range(from.Aliases) \ Range(to.Aliases) :
              ~\E r \in dir : r.Rrtype = "CNAME" /\ r.Name = Fqdn(c)
        /\ \A n \in DOMAIN from.Mapping :
              (Routed(from.Mapping[n]) /\ ~HasMapping(to, n, from.Mapping[n])) =>
                 ~\E r \in dir : /\ r.Rrtype = "PTR" /\ r.Name = ReverseName(from.Mapping[n])
                                 /\ r.Target = Fqdn(n)

----------------------------------------------------------------------------
\* the loops that remove what from has and to has not
ExtraLoops == {"ReverseExtra", "AliasExtra", "MappingExtra"}

\* the differences a log shows as applied: (loop, record name) of an accepted
\* removal of an extra element and of an accepted insertion of a missing one
AppliedDifferences(l) ==
    {<<l[j].loop, l[j].tx.rr.Name>> :
        j \in {k \in DOMAIN l : l[k].ok /\ (l[k].tx.op = "Insert" \/ l[k].loop \in ExtraLoops)}}

\* C2: Update is idempotent. After a call that returned nil, the call made
\* again towards the same to, from the device the directory now publishes,
\* issues no transaction; after a call that failed part-way, the call made
\* again issues no transaction for a difference the failed call had applied.
C2_UpdateIdempotent ==
    /\ (run = 2 /\ first.err = "nil") => Len(log) = 0
    /\ (run = 2 /\ first.err = "error") =>
          \A i \in DOMAIN log :
             <<log[i].loop, log[i].tx.rr.Name>> \notin AppliedDifferences(first.log)

----------------------------------------------------------------------------
\* C3: every mutation is a transaction of its own, and a transaction that
\* fails ends the call: it is the last one the call issues, the call returns
\* the error, and the directory keeps the effect of every transaction accepted
\* before it (nothing is rolled back).
C3_FailureStopsTheCall ==
    /\ \A i \in DOMAIN log :
          ~log[i].ok => i = Len(log) /\ ReturnedError /\ queue = <<>>
    /\ err = "error" => Returned /\ Len(log) > 0 /\ ~log[Len(log)].ok
    /\ dir = ApplyAll(StartDir, log)

\* Update has failed in its second loop after an accepted transaction, with an
\* alias still to insert: the directory is neither as it was nor as wanted
C3_Witness ==
    /\ entry = "Update" /\ run = 1 /\ ReturnedError
    /\ Len(log) >= 2 /\ log[1].ok /\ log[Len(log)].loop = "ReverseMissing"
    /\ dir # Publish(from)
    /\ \E c \in Range(to.Aliases) : ~HasAlias(from, c)

----------------------------------------------------------------------------
\* C5: no transaction on a PTR record is ever sent to the caller's zone, and no
\* transaction at all names the reverse name of an address outside the three
\* private ranges.
C5_NoPointerInCallerZone ==
    /\ \A i \in DOMAIN log : log[i].tx.rr.Rrtype = "PTR" => log[i].tx.zone # zone
    /\ \A a \in Addrs : ~InPrivateRange(a) =>
          \A i \in DOMAIN log : log[i].tx.rr.Name # ReverseName(a)

\* UpdateReverse and UpdateMapping have returned with transactions sent, where
\* an address outside the private ranges was extra or missing
C5_Witness ==
    /\ ReturnedNil /\ Len(log) > 0
    /\ \/ /\ entry = "UpdateReverse"
          /\ \E a \in Range(from.Reverse) \ Range(to.Reverse) : ~InPrivateRange(a)
          /\ \E a \in Range(to.Reverse) \ Range(from.Reverse) : ~InPrivateRange(a)
       \/ /\ entry = "UpdateMapping"
          /\ \E n \in DOMAIN from.Mapping :
                ~InPrivateRange(from.Mapping[n]) /\ ~HasMapping(to, n, from.Mapping[n])

----------------------------------------------------------------------------
\* the removals UpdateReverse owes for a list of extra addresses
RECURSIVE C6_Removals(_)
C6_Removals(s) ==
    IF Len(s) = 0 THEN <<>>
    ELSE <<Removal(findPrivateZone(s[1], zone), ReverseName(s[1]), "PTR")>>
         \o C6_Removals(Tail(s))

\* the removal and insertion UpdateReverse owes for each missing address
RECURSIVE C6_Inserts(_)
C6_Inserts(s) ==
    IF Len(s) = 0 THEN <<>>
    ELSE <<Removal(findPrivateZone(s[1], zone), ReverseName(s[1]), "PTR"),
           Insertion(findPrivateZone(s[1], zone), ReverseName(s[1]), "PTR", ttl,
                     Fqdn(to.Name))>>
         \o C6_Inserts(Tail(s))

C6_Expected ==
    C6_Removals(SelectSeq(from.Reverse,
                          LAMBDA a : a \notin Range(to.Reverse) /\ Routed(a)))
    \o C6_Inserts(SelectSeq(to.Reverse,
                            LAMBDA a : a \notin Range(from.Reverse) /\ Routed(a)))

\* C6: UpdateReverse issues one removal of the PTR set at the reverse name of
\* exactly the routed addresses from.Reverse has and to.Reverse has not, then
\* for exactly the routed addresses to.Reverse has and from.Reverse has not a
\* removal of that name followed at once by the insertion of a PTR there with
\* TTL ttl and target to.Name, all sent to the routed zone.
C6_UpdateReverseTransactions ==
    entry = "UpdateReverse" =>
        /\ IsPrefix(Sent, C6_Expected)
        /\ ReturnedNil => Sent = C6_Expected

\* UpdateReverse has returned nil after removing an extra address and
\* inserting a missing one for a device that changes its name, while a shared
\* address was passed over
C6_Witness ==
    /\ entry = "UpdateReverse" /\ ReturnedNil /\ Len(log) = 3
    /\ \E a \in Range(from.Reverse) \cap Range(to.Reverse) : Routed(a)
    /\ from.Name # to.Name

----------------------------------------------------------------------------
\* the removals UpdateAlias owes for a list of extra aliases
RECURSIVE C7_Removals(_)
C7_Removals(s) ==
    IF Len(s) = 0 THEN <<>>
    ELSE <<Removal(zone, Fqdn(s[1]), "CNAME")>> \o C7_Removals(Tail(s))

\* the removal and insertion UpdateAlias owes for each missing alias
RECURSIVE C7_Inserts(_)
C7_Inserts(s) ==
    IF Len(s) = 0 THEN <<>>
    ELSE <<Removal(zone, Fqdn(s[1]), "CNAME"),
           InsertionAnyTtl(zone, Fqdn(s[1]), "CNAME", Fqdn(to.Name))>>
         \o C7_Inserts(Tail(s))

C7_Expected ==
    C7_Removals(SelectSeq(from.Aliases, LAMBDA c : c \notin Range(to.Aliases)))
    \o C7_Inserts(SelectSeq(to.Aliases, LAMBDA c : c \notin Range(from.Aliases)))

\* C7: UpdateAlias removes the CNAME set of exactly the aliases from.Aliases
\* has and to.Aliases has not, and for exactly the aliases to.Aliases has and
\* from.Aliases has not it removes the alias name and then inserts a CNAME
\* there whose target is to.Name, also when from.Name differs; all sent to zone.
C7_UpdateAliasTransactions ==
    entry = "UpdateAlias" =>
        /\ IsPrefix(SentAnyTtl, C7_Expected)
        /\ ReturnedNil => SentAnyTtl = C7_Expected

----------------------------------------------------------------------------
\* the pairs of m that d does not have, and that are routed
C8_Keys(m, d) ==
    {n \in DOMAIN m : ~(n \in DOMAIN d.Mapping /\ d.Mapping[n] = m[n]) /\ Routed(m[n])}

\* the removals UpdateMapping owes for the extra pairs, taken in the order s
RECURSIVE C8_Removals(_)
C8_Removals(s) ==
    IF Len(s) = 0 THEN <<>>
    ELSE <<Removal(findPrivateZone(from.Mapping[s[1]], zone),
                   ReverseName(from.Mapping[s[1]]), "PTR")>>
         \o C8_Removals(Tail(s))

\* the removal and insertion UpdateMapping owes for each missing pair
RECURSIVE C8_Inserts(_)
C8_Inserts(s) ==
    IF Len(s) = 0 THEN <<>>
    ELSE <<Removal(findPrivateZone(to.Mapping[s[1]], zone),
                   ReverseName(to.Mapping[s[1]]), "PTR"),
           InsertionAnyTtl(findPrivateZone(to.Mapping[s[1]], zone),
                           ReverseName(to.Mapping[s[1]]), "PTR", Fqdn(s[1]))>>
         \o C8_Inserts(Tail(s))

\* the sequences of transactions that do so, one for each order of the maps
C8_Expected ==
    {C8_Removals(se) \o C8_Inserts(sm) :
        se \in Orders(C8_Keys(from.Mapping, to)), sm \in Orders(C8_Keys(to.Mapping, from))}

\* C8: UpdateMapping removes the PTR set at the reverse name of the address of
\* exactly the (name, address) pairs from.Mapping has and to.Mapping has not,
\* and for exactly the pairs to.Mapping has and from.Mapping has not it
\* removes that set and then inserts a PTR there that points to the mapping
\* name; each is sent to the zone findPrivateZone gives for the address and is
\* left out when that zone is the caller's.
C8_UpdateMappingTransactions ==
    entry = "UpdateMapping" =>
        /\ \E e \in C8_Expected : IsPrefix(SentAnyTtl, e)
        /\ ReturnedNil => SentAnyTtl \in C8_Expected

\* UpdateMapping has returned nil where a name keeps its place and changes its
\* address, another pair is extra and one address is not routed
C8_Witness ==
    /\ entry = "UpdateMapping" /\ ReturnedNil /\ Len(log) >= 3
    /\ \E n \in DOMAIN from.Mapping \cap DOMAIN to.Mapping :
          from.Mapping[n] # to.Mapping[n] /\ Routed(to.Mapping[n])
    /\ \E n \in DOMAIN to.Mapping : ~Routed(to.Mapping[n])

----------------------------------------------------------------------------
Zone168x192 == <<"1", "6", "8", ".", "1", "9", "2">> \o InAddrArpa
Zone172 == <<"1", "7", "2">> \o InAddrArpa

\* C4: findPrivateZone classifies every IPv4 address by its range alone: an
\* address in 10.0.0.0/8 gives "10.in-addr.arpa.", an address in 172.16.0.0/12
\* gives its own private reverse zone (a zone under 172.in-addr.arpa. that
\* holds the address's reverse name), an address in 192.168.0.0/16 gives
\* "168.192.in-addr.arpa.", whatever zone the caller passes, and every other
\* address gives the caller's zone.
C4_StaticClassification ==
    ret.done =>
        LET ip == call.ip
        IN  /\ ip[1] = 10 => ret.value = Zone10
            /\ (ip[1] = 172 /\ ip[2] \in 16..31) =>
                  /\ HasSuffix(ret.value, <<".">> \o Zone172)
                  /\ HasSuffix(ReverseName(ip), <<".">> \o ret.value)
            /\ (ip[1] = 192 /\ ip[2] = 168) => ret.value = Zone168x192
            /\ ~InPrivateRange(ip) => ret.value = call.zone

----------------------------------------------------------------------------
\* the records List was given
Fwd == Concat(transfers.zones)
Rev == Concat(transfers.reverse)

ListNames == {HostH, HostG, AliasC, AliasD}
ListAddrs == {Addr10, Addr10x2}
NoName == <<>>

\* the names that own an address record
AOwners == {Fwd[i].Name : i \in {k \in DOMAIN Fwd : Fwd[k].Rrtype = "A"}}

\* the target of the last alias record of c, if it has one
LastCname(c) ==
    LET I == {k \in DOMAIN Fwd : Fwd[k].Rrtype = "CNAME" /\ Fwd[k].Name = c}
    IN  IF I = {} THEN NoName ELSE Fwd[CHOOSE k \in I : \A j \in I : j <= k].Target

\* the target of the last reverse-pointer record of address a, if it has one
LastPtr(a) ==
    LET I == {k \in DOMAIN Rev : Rev[k].Rrtype = "PTR" /\ Rev[k].Name = ReverseName(a)}
    IN  IF I = {} THEN NoName ELSE Rev[CHOOSE k \in I : \A j \in I : j <= k].Target

ListReturnedNil == out.done /\ out.err = "nil"

\* the devices of the inventory that have the name h
Named(h) == {out.devices[i] : i \in {k \in DOMAIN out.devices : out.devices[k].Name = h}}

\* a secondary mapping is recorded only for a reverse-pointer to an alias
\* record whose target is the device
C9_OnlyIf ==
    \A i \in DOMAIN out.devices :
       \A n \in DOMAIN out.devices[i].Mapping :
          /\ \E k \in DOMAIN Rev : /\ Rev[k].Rrtype = "PTR" /\ Rev[k].Target = n
                                   /\ Rev[k].Name = ReverseName(out.devices[i].Mapping[n])
          /\ \E k \in DOMAIN Fwd : /\ Fwd[k].Rrtype = "CNAME" /\ Fwd[k].Name = n
                                   /\ Fwd[k].Target = out.devices[i].Name

----------------------------------------------------------------------------
\* C10: no alias of a device of the inventory is the name of a device of the
\* inventory: an alias record whose owner also owns an address record is
\* attached to no device, an alias is attached only to the device its alias
\* record targets, so that an alias record that points to itself or to a name
\* that is no device attaches nothing, and the build goes on: every name with
\* an address record has its device.
C10_NoDeviceIsAnAlias ==
    ListReturnedNil =>
        /\ \A i \in DOMAIN out.devices :
              \A c \in Range(out.devices[i].Aliases) :
                 /\ \A j \in DOMAIN out.devices : out.devices[j].Name # c
                 /\ c \notin AOwners
                 /\ LastCname(c) = out.devices[i].Name
        /\ {out.devices[i].Name : i \in DOMAIN out.devices} = AOwners

\* an inventory of two devices built from records where a device name owns an
\* alias record that points to the other device
C10_Witness ==
    /\ ListReturnedNil /\ Len(out.devices) = 2
    /\ \E k \in DOMAIN Fwd : /\ Fwd[k].Rrtype = "CNAME" /\ Fwd[k].Name \in AOwners
                             /\ Fwd[k].Target \in AOwners /\ Fwd[k].Target # Fwd[k].Name

----------------------------------------------------------------------------
\* s comes before t in the lexicographic order of their bytes: they agree on
\* their first k bytes and there s ends and t does not, or s has the lower
\* byte
Before(s, t) ==
    \E k \in 0..Len(t) :
       /\ k <= Len(s) /\ SubSeq(s, 1, k) = SubSeq(t, 1, k)
       /\ \/ k = Len(s) /\ k < Len(t)
          \/ k < Len(s) /\ k < Len(t) /\ Ord(s[k + 1]) < Ord(t[k + 1])

\* C11: the inventory List returns holds exactly one device for each name that
\* owns an address record in the transferred forward zones, none for another
\* name, and its devices are in strictly ascending lexicographic order of
\* their names.
C11_OneDevicePerNameInOrder ==
    ListReturnedNil =>
        /\ {out.devices[i].Name : i \in DOMAIN out.devices} = AOwners
        /\ \A i, j \in DOMAIN out.devices :
              i < j => Before(out.devices[i].Name, out.devices[j].Name)

\* an inventory of two devices built from address records that arrive in
\* descending order of name, one name owning two of them
C11_Witness ==
    /\ ListReturnedNil /\ Len(out.devices) = 2
    /\ \E i, j \in DOMAIN Fwd :
          /\ i < j /\ Fwd[i].Rrtype = "A" /\ Fwd[j].Rrtype = "A"
          /\ Before(Fwd[j].Name, Fwd[i].Name)
    /\ \E i, j \in DOMAIN Fwd :
          i # j /\ Fwd[i].Rrtype = "A" /\ Fwd[j].Rrtype = "A" /\ Fwd[i].Name = Fwd[j].Name

----------------------------------------------------------------------------
\* List has returned an inventory twice
BuiltTwice == ListReturnedNil /\ out.again # <<>>

\* C12: building is deterministic: two runs of List over the same records in
\* the same order return the same sequence of devices with the same field
\* values, the order of the alias and reverse lists and the secondary mappings
\* included.
C12_Deterministic ==
    (BuiltTwice /\ out.again.rr = Fwd /\ out.again.reverse = Rev)
        => out.again.devices = out.devices

----------------------------------------------------------------------------
\* C13: when the transfer of a forward or reverse zone fails, at connection
\* time or in the middle of the stream, List returns the error and no
\* inventory: nothing of the zones transferred before and nothing received
\* before the error is in a result, and List returns an inventory only when
\* every transfer has delivered all its records.
C13_NoPartialInventory ==
    out.done =>
        /\ out.step < Len(BuildTransfers) => out.err = "error"
        /\ out.err = "error" => out.devices = <<>>
        /\ out.err = "nil" => /\ out.step = Len(BuildTransfers)
                              /\ out.rr = Fwd
                              /\ out.ptrs = ListPtrs(<<>>, transfers.reverse)

\* List has failed in the transfer of the second forward zone, after the
\* reverse zone gave a pointer and the first forward zone an address record,
\* and after a record of the failing transfer had arrived
C13_Witness ==
    /\ out.done /\ out.err = "error" /\ out.step = 2
    /\ DOMAIN out.ptrs # {}
    /\ \E i \in DOMAIN out.rr : out.rr[i].Rrtype = "A"
    /\ Len(out.received) > 0

----------------------------------------------------------------------------
\* no name has two records of one type
OnePerType(rr) == \A i, j \in DOMAIN rr :
                     (rr[i].Name = rr[j].Name /\ rr[i].Rrtype = rr[j].Rrtype) => i = j

\* C14: the inventory does not depend on the order of the transferred records:
\* when no name has two records of one type, List over the same records in
\* another order returns the same inventory, so that a descriptive-text,
\* classification, location or alias record is applied whether it comes before
\* or after the address record of its device.
C14_OrderIndependent ==
    (BuiltTwice /\ OnePerType(Fwd) /\ OnePerType(Rev)) => out.again.devices = out.devices

----------------------------------------------------------------------------
\* the integer nearest to n * 2^k, a half going up
RoundNearest(n, k) ==
    IF k >= 0 THEN NShl(n, k) ELSE NShr(NAdd(n, NShl(<<1>>, 0 - k - 1)), 0 - k)

\* round(x * 3600000) + 2^31 of a float64 x, in exact arithmetic
AngleRounded(x) ==
    LET r == RoundNearest(NMulSmall(x.m, 28125), x.e + 7)
    IN  IF x.sign = 1 THEN NSub(NShl(<<1>>, 31), r) ELSE NAdd(NShl(<<1>>, 31), r)

\* round((h + 100000) * 100) of a float64 h between -100000 and 2^52, in
\* exact arithmetic
HeightRounded(h) ==
    LET base == NShl(NFromInt(100000), 0 - h.e)
        sum == IF h.sign = 1 THEN NSub(base, h.m) ELSE NAdd(base, h.m)
    IN  RoundNearest(NMulSmall(sum, 100), h.e)

\* Location has returned
LocationReturned == call # <<>> /\ call.fn = "Location" /\ ret.step >= 1

\* the device of the tests
IsTestDevice(d) ==
    d.Latitude = TestLatitude /\ d.Longitude = TestLongitude /\ d.Height = TestHeight

\* C15: Location encodes by rounding to the nearest unit: the latitude as
\* round(latitude * 3600000) + 2^31, the longitude likewise, the altitude as
\* round((height + 100000) * 100), for a latitude in [-90, 90], a longitude in
\* [-180, 180] and a height in [-100000, 42849572.95]; the device of the tests
\* gives 2^31 - 148645580, 2^31 + 629213746 and 10002100.
C15_RoundsToNearest ==
    LocationReturned =>
        /\ ret.value = <<AngleRounded(call.d.Latitude), AngleRounded(call.d.Longitude),
                         HeightRounded(call.d.Height)>>
        /\ IsTestDevice(call.d) =>
               ret.value = <<NSub(NShl(<<1>>, 31), NFromInt(148645580)),
                             NAdd(NShl(<<1>>, 31), NFromInt(629213746)),
                             NFromInt(10002100)>>

----------------------------------------------------------------------------
\* |x - y| * c * 2^k <= 1 for two float64 values, in exact arithmetic
FWithin(x, y, c, k) ==
    LET e0 == IF x.e < y.e THEN x.e ELSE y.e
        xm == NShl(x.m, x.e - e0)
        ym == NShl(y.m, y.e - e0)
        diff == IF x.sign # y.sign THEN NAdd(xm, ym)
                ELSE IF NLess(xm, ym) THEN NSub(ym, xm) ELSE NSub(xm, ym)
        units == NMulSmall(diff, c)
    IN  IF k + e0 >= 0 THEN ~NLess(<<1>>, NShl(units, k + e0))
        ELSE ~NLess(NShl(<<1>>, 0 - (k + e0)), units)

\* SetLocation has been applied to what Location returned
WentBack == call # <<>> /\ call.fn = "Location" /\ ret.step = 2

\* Location has encoded what SetLocation decoded
CameBack == call # <<>> /\ call.fn = "SetLocation" /\ ret.step = 2

\* decoding what Location returned gives the latitude and the longitude back
\* within a thousandth of an arc second and the height within a centimetre
C16_DecodeOfEncode ==
    WentBack =>
        /\ FWithin(ret.device.Latitude, call.d.Latitude, 28125, 7)
        /\ FWithin(ret.device.Longitude, call.d.Longitude, 28125, 7)
        /\ FWithin(ret.device.Height, call.d.Height, 25, 2)

\* encoding what SetLocation decoded gives the three 32-bit values back
C16_EncodeOfDecode ==
    CameBack => (ret.value = <<call.lat, call.lon, call.alt>> /\ ret.at)

\* C16: for a latitude in [-90, 90], a longitude in [-180, 180] and a height
\* in [-100000, 42849572.95], SetLocation of the three values Location returns
\* gives the latitude and longitude back within 1/3600000 degree and the
\* height within 1 cm; and for every encoded triple, Location after
\* SetLocation returns the same three 32-bit values.
C16_RoundTrip == C16_DecodeOfEncode /\ C16_EncodeOfDecode

----------------------------------------------------------------------------
\* ToLOC has returned
ToLOCReturned == call # <<>> /\ call.fn = "ToLOC" /\ ret.step = 1

\* the size byte 0x19 and the precision bytes 0x13 for the device of the tests
C17_SizeBytesAsStated ==
    (ToLOCReturned /\ IsTestDevice(call.d)) =>
        /\ ret.value.Size = 25 /\ ret.value.HorizPre = 19 /\ ret.value.VertPre = 19
        /\ cm2size(NFromInt(10000)) = 25 /\ cm2size(NFromInt(5000)) = 19

\* C17: projecting the device of the tests (latitude -41.290438888888886,
\* longitude 174.7815961111111, height 21) to its location record gives the
\* size byte 0x14 and the horizontal and vertical precision bytes 0x53, that
\* is cm2size(10000) = 0x14 and cm2size(5000) = 0x53.
C17_SizeBytes ==
    (ToLOCReturned /\ IsTestDevice(call.d)) =>
        /\ ret.value.Size = 20 /\ ret.value.HorizPre = 83 /\ ret.value.VertPre = 83
        /\ cm2size(NFromInt(10000)) = 20 /\ cm2size(NFromInt(5000)) = 83

\* the device of the tests has been projected
C17_Witness == ToLOCReturned /\ IsTestDevice(call.d) /\ call.d.Name = HostH

----------------------------------------------------------------------------
\* the centimetres a size byte stands for: the high nibble times ten to the
\* low nibble
SizeCm(b) == (b \div 16) * Pow10(b % 16)

\* C18: for every device, ToLOC returns a location record owned by the
\* fully-qualified name of the device ("." when the name is empty) with TTL
\* 0, whose size, horizontal precision and vertical precision are the
\* encodings of 10000 cm, 5000 cm and 5000 cm whatever the device, and whose
\* latitude, longitude and altitude are the three values of Location().
C18_ToLOC ==
    ToLOCReturned =>
        LET n == call.d.Name
            r == ret.value
        IN  /\ r.Rrtype = "LOC" /\ r.Ttl = 0
            /\ r.Name = IF n = <<>> THEN <<".">>
                        ELSE IF n[Len(n)] = "." THEN n ELSE n \o <<".">>
            /\ r.Size = 20 /\ r.HorizPre = 83 /\ r.VertPre = 83
            /\ SizeCm(r.Size) = 10000 /\ SizeCm(r.HorizPre) = 5000
            /\ SizeCm(r.VertPre) = 5000
            /\ <<r.Latitude, r.Longitude, r.Altitude>> = Location(call.d)

\* a device without a name, away from the location of the tests, has been
\* projected
C18_Witness ==
    /\ ToLOCReturned /\ call.d.Name = <<>> /\ ~IsTestDevice(call.d)
    /\ ret.value.Name = <<".">>

----------------------------------------------------------------------------
\* cm2size has returned
Cm2sizeReturned == call # <<>> /\ call.fn = "cm2size" /\ ret.done

\* c divided by 10, k times
RECURSIVE DivTimes(_, _)
DivTimes(c, k) == IF k = 0 THEN c ELSE DivTimes(NDivSmall(c, 10).q, k - 1)

\* m * 10^k
RECURSIVE TimesPow10(_, _)
TimesPow10(m, k) == IF k = 0 THEN m ELSE TimesPow10(NMulSmall(m, 10), k - 1)

\* the byte cm2size returned is right for the value it was called with
Cm2sizeRight ==
    Cm2sizeReturned =>
        LET c == call.cms
            m == ret.value \div 16
            e == ret.value % 16
        IN  /\ m \in 0..9 /\ e \in 0..9
            /\ ret.e = e
            /\ NLess(DivTimes(c, e), <<10>>)
            /\ \A k \in 0..(e - 1) : ~NLess(DivTimes(c, k), <<10>>)
            /\ NFromInt(m) = DivTimes(c, e)
            /\ c = <<>> => ret.value = 0
            /\ c # <<>> => /\ ~NLess(c, TimesPow10(NFromInt(m), e))
                           /\ NLess(c, TimesPow10(NFromInt(m + 1), e))

\* C19: for every 32-bit centimetre value c, cm2size(c) terminates and
\* returns (m << 4) | e where e is the number of divisions by 10 that bring c
\* below 10 and m is the value left; both nibbles are in 0..9, cm2size(0) = 0,
\* and for c >= 1 the decoded value satisfies m * 10^e <= c < (m + 1) * 10^e.
C19_Cm2size == []Cm2sizeRight /\ <>Cm2sizeReturned

\* cm2size has returned for 2^32 - 1, after nine turns of its loop
C19_Witness ==
    /\ Cm2sizeReturned /\ call.cms = NSub(NShl(<<1>>, 32), <<1>>)
    /\ ret.e = 9 /\ ret.value = 73

----------------------------------------------------------------------------
\* Equal has returned
EqualReturned == call # <<>> /\ call.fn = "Equal" /\ ret.done

\* two strings that differ at most in the case of their letters
SameIgnoringCase(s, t) ==
    /\ Len(s) = Len(t)
    /\ \A i \in 1..Len(s) :
          \/ s[i] = t[i]
          \/ \E j \in 1..Len(UpperCase) :
                {s[i], t[i]} = {UpperCase[j], LowerCase[j]}

\* C20: d.Equal(e) is true exactly when the name of e is the name of d
\* ignoring case, the primary address of e is the primary address of d or one
\* of the reverse addresses of d, the code of e is the code of d ignoring
\* case, the model of e is the model of d exactly, and both devices encode to
\* the same three location values; place, aliases, secondary mappings and the
\* reverse addresses of e play no part.
C20_Equal ==
    EqualReturned =>
        LET d == call.d
            e == call.device
        IN  ret.value <=>
               /\ SameIgnoringCase(e.Name, d.Name)
               /\ e.IP = d.IP \/ e.IP \in {d.Reverse[i] : i \in 1..Len(d.Reverse)}
               /\ SameIgnoringCase(e.Code, d.Code)
               /\ e.Model = d.Model
               /\ Location(e) = Location(d)

\* Equal has returned true for two devices that differ in the case of name
\* and code, in place, aliases, mappings and reverse addresses and in their
\* latitude, the address of the argument being a reverse address of the
\* receiver
C20_Witness ==
    /\ EqualReturned /\ ret.value
    /\ call.device.Name # call.d.Name /\ call.device.Code # call.d.Code
    /\ call.device.IP # call.d.IP
    /\ call.device.Place # call.d.Place /\ call.device.Aliases # call.d.Aliases
    /\ call.device.Mapping # call.d.Mapping /\ call.device.Reverse # call.d.Reverse
    /\ call.device.Latitude # call.d.Latitude

----------------------------------------------------------------------------
\* Equal has returned for two devices in both directions
EqualBothWays == EqualReturned /\ "converse" \in DOMAIN ret

\* C28: Equal is a symmetric relation: d.Equal(e) holds exactly when
\* e.Equal(d) holds, also when the two devices have different primary
\* addresses or different reverse-address lists.
C28_EqualSymmetric == EqualBothWays => (ret.value <=> ret.converse)

----------------------------------------------------------------------------
\* C26: every record Update inserts, in any of its three sub-steps, carries
\* the caller-supplied ttl as its TTL.
C26_InsertsCarryTtl ==
    \A i \in DOMAIN log : log[i].tx.op = "Insert" => log[i].tx.rr.Ttl = ttl

----------------------------------------------------------------------------
\* the place of a loop in a call of Update: reverse addresses, aliases,
\* secondary mappings, in each the extra elements before the missing ones
LoopRank(p) ==
    CASE p = "ReverseExtra" -> 1 [] p = "ReverseMissing" -> 2
      [] p = "AliasExtra" -> 3 [] p = "AliasMissing" -> 4
      [] p = "MappingExtra" -> 5 [] p = "MappingMissing" -> 6
      [] OTHER -> 7

\* the loops that have issued a transaction so far
LoopsInLog == {log[i].loop : i \in DOMAIN log}

\* C23: Update runs its three sub-steps one after another in the order
\* reverse addresses, aliases, secondary mappings: every transaction of an
\* earlier sub-step has been answered before the first of a later one is
\* issued, and in each sub-step all removals of extra elements are issued
\* before any pre-removal or insertion of a missing element.
C23_SubStepsInOrder ==
    /\ \A i, j \in DOMAIN log : i < j => LoopRank(log[i].loop) <= LoopRank(log[j].loop)
    /\ \A i \in DOMAIN log :
          /\ log[i].ok \in BOOLEAN
          /\ LoopRank(log[i].loop) <= LoopRank(pc)
          /\ log[i].loop \in {"ReverseExtra", "AliasExtra", "MappingExtra"}
                => log[i].tx.op = "RemoveRRset"
          /\ log[i].tx.rr.Rrtype =
                IF log[i].loop \in {"AliasExtra", "AliasMissing"} THEN "CNAME" ELSE "PTR"
    /\ \A i \in DOMAIN queue : LoopRank(pc) <= 6

\* a call of Update has returned nil after transactions of all three
\* sub-steps, the reverse addresses with both an extra and a missing element
C23_Witness ==
    /\ entry = "Update" /\ ReturnedNil
    /\ {"ReverseExtra", "ReverseMissing"} \subseteq LoopsInLog
    /\ LoopsInLog \cap {"AliasExtra", "AliasMissing"} # {}
    /\ LoopsInLog \cap {"MappingExtra", "MappingMissing"} # {}

----------------------------------------------------------------------------
\* the aliases, reverse addresses and mapped addresses the two snapshots share
SharedAliases == Range(from.Aliases) \cap Range(to.Aliases)
SharedReverse == Range(from.Reverse) \cap Range(to.Reverse)
SharedMapped ==
    {from.Mapping[n] : n \in {k \in DOMAIN from.Mapping \cap DOMAIN to.Mapping :
                                  from.Mapping[k] = to.Mapping[k]}}

\* C25: Update issues no transaction on the record of an element the two
\* snapshots share: no CNAME transaction names an alias that is in both
\* from.Aliases and to.Aliases, and no PTR removal or insertion names the
\* reverse name of an address that is in both from.Reverse and to.Reverse or
\* of a (name, address) pair that is in both from.Mapping and to.Mapping,
\* whatever the other sub-steps do.
C25_SharedUntouched ==
    \A i \in DOMAIN log :
        LET rr == log[i].tx.rr
        IN  /\ rr.Rrtype = "CNAME" => \A al \in SharedAliases : rr.Name # Fqdn(al)
            /\ rr.Rrtype = "PTR" =>
                  \A a \in SharedReverse \cup SharedMapped : rr.Name # ReverseName(a)

----------------------------------------------------------------------------
\* in the inventory each name with a secondary mapping is an alias of the
\* same device
C27_MappedNamesAreAliases ==
    ListReturnedNil =>
        \A i \in DOMAIN out.devices :
            DOMAIN out.devices[i].Mapping \subseteq Range(out.devices[i].Aliases)

\* in the inventory each address is a reverse address of at most one device,
\* and at most once
C27_ReverseOnce ==
    ListReturnedNil =>
        \A i, j \in DOMAIN out.devices :
            \A k \in DOMAIN out.devices[i].Reverse, l \in DOMAIN out.devices[j].Reverse :
                out.devices[i].Reverse[k] = out.devices[j].Reverse[l] => (i = j /\ k = l)

\* C27: in every inventory List builds, each name that is a key of the
\* secondary mappings of a device is also a member of its aliases, and each
\* address appears in the reverse addresses of at most one device and at most
\* once there.
C27_InventoryConsistent == C27_MappedNamesAreAliases /\ C27_ReverseOnce

----------------------------------------------------------------------------
\* the reverse-pointer record transferred, and the zone it came from
ThePointer == transfers.reverse[1].rr[1]
TheReverseZone == transfers.reverse[1].zone

\* the reverse zone is the name of the pointer from a label on
AtLabelBoundary ==
    \/ TheReverseZone = ThePointer.Name
    \/ HasSuffix(ThePointer.Name, <<".">> \o TheReverseZone)

\* C24: the reverse name Update writes and the address List reads are inverse:
\* for every IPv4 address a and every reverse zone whose name is a suffix of
\* reverseAddress(a) at a label boundary, the address List reconstructs from
\* a reverse-pointer record named reverseAddress(a) transferred from that
\* zone is a.
C24_ReverseNameInverse ==
    (ListReturnedNil /\ Len(Rev) = 1 /\ AtLabelBoundary) =>
        \A a \in Addrs \cup {<<x, y, z, w>> : x \in FirstBytes, y \in SecondBytes,
                                              z \in {0, 10}, w \in LastBytes} :
            ThePointer.Name = ReverseName(a) =>
                \E i \in DOMAIN out.devices :
                    /\ out.devices[i].Name = ThePointer.Target
                    /\ out.devices[i].Reverse = <<a>>

----------------------------------------------------------------------------
\* a query of an inventory made and answered
Answered(fn) == call # <<>> /\ call.fn = fn /\ ret.done

\* the devices of a list
DevicesOf(l) == {l[i] : i \in DOMAIN l}

\* C21: HasName, HasCode and AtPlace are true for every argument that
\* differs from the field of the device only in the case of its letters and
\* false for any other; HasModel is true only for the very model.
C21_Predicates ==
    /\ Answered("HasName") =>
          (ret.value <=> SameIgnoringCase(call.d.List[1].Name, call.arg))
    /\ Answered("HasCode") =>
          (ret.value <=> SameIgnoringCase(call.d.List[1].Code, call.arg))
    /\ Answered("AtPlace") =>
          (ret.value <=> SameIgnoringCase(call.d.List[1].Place, call.arg))
    /\ Answered("HasModel") => (ret.value <=> call.d.List[1].Model = call.arg)

\* C21: ListByCode, ListByPlace, ListByModel and ListByModelAndCode select
\* the devices for which these comparisons are true.
C21_Filters ==
    /\ Answered("ListByCode") =>
          DevicesOf(ret.value.List) =
             {s \in DevicesOf(call.d.List) : SameIgnoringCase(s.Code, call.arg)}
    /\ Answered("ListByPlace") =>
          DevicesOf(ret.value.List) =
             {s \in DevicesOf(call.d.List) : SameIgnoringCase(s.Place, call.arg)}
    /\ Answered("ListByModel") =>
          DevicesOf(ret.value.List) =
             {s \in DevicesOf(call.d.List) : s.Model = call.arg}
    /\ Answered("ListByModelAndCode") =>
          DevicesOf(ret.value.List) =
             {s \in DevicesOf(call.d.List) :
                 s.Model = call.model /\ SameIgnoringCase(s.Code, call.code)}

\* C21: the comparisons of names, codes and places ignore the case of
\* letters, that of models does not, and the filters of an inventory select
\* by them.
C21_CaseOfLetters == C21_Predicates /\ C21_Filters

\* a place asked for in the other case selected some devices of an
\* inventory and not others
C21_Witness ==
    /\ Answered("ListByPlace")
    /\ call.arg = <<"P">>
    /\ \E s \in DevicesOf(ret.value.List) : s.Place = <<"p">>
    /\ Len(ret.value.List) < Len(call.d.List)

\* r is what is left of l, in the order of l, when the devices that do not
\* satisfy keep are taken out
LeftOf(r, l, keep(_)) ==
    LET kept == {i \in DOMAIN l : keep(l[i])}
    IN  /\ Len(r) = Cardinality(kept)
        /\ \A k \in DOMAIN r :
              r[k] = l[CHOOSE i \in kept : Cardinality({j \in kept : j <= i}) = k]

\* the devices of a list are in the order of their names
SortedByName(l) == \A i, j \in DOMAIN l : i < j => StrLess(l[i].Name, l[j].Name)

ListQueries == {"ListByModel", "ListByCode", "ListByPlace", "ListByModelAndCode"}
MatchQueries == {"MatchByName", "MatchByModel", "MatchByPlace"}
MustMatchQueries == {"MustMatchByName", "MustMatchByModel", "MustMatchByPlace"}

\* the list a query returned, if it returned one
HasListReturned ==
    /\ call # <<>> /\ ret.done
    /\ \/ call.fn \in ListQueries
       \/ call.fn \in MatchQueries /\ "l" \in DOMAIN ret.value
       \/ call.fn \in MustMatchQueries /\ "List" \in DOMAIN ret.value
ListReturned == IF call.fn \in MatchQueries THEN ret.value.l.List ELSE ret.value.List

\* the device satisfies what the query asked for
Asked(s) ==
    CASE call.fn = "ListByModel" -> HasModel(s, call.arg)
      [] call.fn = "ListByCode" -> HasCode(s, call.arg)
      [] call.fn = "ListByPlace" -> AtPlace(s, call.arg)
      [] call.fn = "ListByModelAndCode" -> HasModel(s, call.model) /\ HasCode(s, call.code)
      [] call.fn \in {"MatchByName", "MustMatchByName"} -> MatchString(call.arg, s.Name)
      [] call.fn \in {"MatchByModel", "MustMatchByModel"} -> MatchString(call.arg, s.Model)
      [] call.fn \in {"MatchByPlace", "MustMatchByPlace"} -> MatchString(call.arg, s.Place)

\* C22: every query leaves the list of the inventory and its devices as
\* they were.
C22_InventoryUnchanged == (call # <<>> /\ ret.done /\ "d" \in DOMAIN ret) => ret.d = call.d

\* C22: the list a ListBy or MatchBy query returns is what is left of the
\* list of the inventory, in its order, when the devices that do not satisfy
\* what was asked for are taken out, and is sorted by name.
C22_Subsequence ==
    HasListReturned =>
        /\ LeftOf(ListReturned, call.d.List, Asked)
        /\ SortedByName(ListReturned)

\* C22: MatchBy with an expression that does not compile returns an error
\* and no list.
C22_InvalidPattern ==
    (call # <<>> /\ ret.done /\ call.fn \in MatchQueries /\ CompileFails(call.arg)) =>
        /\ ret.value.err = "error"
        /\ "l" \notin DOMAIN ret.value

\* C22: the queries of an inventory leave it unchanged, return the devices
\* asked for in the order they have in the inventory, and MatchBy returns
\* an error and no list for an expression that does not compile.
C22_Queries == C22_InventoryUnchanged /\ C22_Subsequence /\ C22_InvalidPattern

\* a query by code returned the first and the last of three devices
C22_Witness ==
    /\ Answered("ListByCode")
    /\ Len(call.d.List) = 3
    /\ ret.value.List = <<call.d.List[1], call.d.List[3]>>

====
